---------------------------- MODULE Spec2Model ----------------------------
(***************************************************************************)
(* A model of the embedding classifiers of the Obsidian auto-tagger:       *)
(*   src/embedding-classifier.ts   EmbeddingClassifier                      *)
(*   src/advanced-classifier.ts    AdvancedEmbeddingClassifier              *)
(*                                                                         *)
(* Strings are sequences of one-character strings, so that lower-casing,   *)
(* separator stripping, substring tests and the rolling hash are computed  *)
(* character by character as the code computes them.                       *)
(*                                                                         *)
(* Numbers: the code computes in IEEE doubles.  The model computes in      *)
(* fixed point with FP units per 1.0 (a weight of 3.099 is 3099).          *)
(* Thresholds of the code (0.40, 0.6, 0.25, 0.55, ...) keep their values   *)
(* in those units.                                                         *)
(*                                                                         *)
(* Vectors: an embedding is an array of DIMENSIONS numbers.  Only the      *)
(* dimensions some word of the model's vocabulary hashes to can ever be    *)
(* non-zero, so a vector is stored as its values on those dimensions       *)
(* (UsedDims) together with its length.                                    *)
(***************************************************************************)
EXTENDS Integers, Sequences, FiniteSets, TLC

(***************************************************************************)
(* Generic helpers                                                         *)
(***************************************************************************)
Range(s) == {s[k] : k \in DOMAIN s}

RECURSIVE SumOver(_, _)
\* the sum of f[x] over x in S
SumOver(f, S) ==
  IF S = {} THEN 0
  ELSE LET x == CHOOSE y \in S : TRUE IN f[x] + SumOver(f, S \ {x})

RECURSIVE SqrtSearch(_, _, _)
\* least r in lo..hi with r*r >= n
SqrtSearch(n, lo, hi) ==
  IF lo >= hi THEN lo
  ELSE LET mid == (lo + hi) \div 2
       IN IF mid * mid >= n THEN SqrtSearch(n, lo, mid)
          ELSE SqrtSearch(n, mid + 1, hi)

\* Math.sqrt on a sum of squares of fixed-point numbers: the result is again
\* in fixed point.  Rounded up, so that |a.b| <= sqrt(a.a) * sqrt(b.b)
\* survives the rounding as it does (to the last bit) in doubles.
Sqrt(n) == IF n <= 0 THEN 0 ELSE SqrtSearch(n, 1, 46340)

(***************************************************************************)
(* Characters and strings                                                  *)
(***************************************************************************)
LowerLetters ==
  <<"a","b","c","d","e","f","g","h","i","j","k","l","m",
    "n","o","p","q","r","s","t","u","v","w","x","y","z">>

UpperLetters ==
  <<"A","B","C","D","E","F","G","H","I","J","K","L","M",
    "N","O","P","Q","R","S","T","U","V","W","X","Y","Z">>

Digits == <<"0","1","2","3","4","5","6","7","8","9">>

IndexOf(seq, c) == CHOOSE k \in DOMAIN seq : seq[k] = c

\* String.prototype.charCodeAt for the characters of the model
charCodeAt(c) ==
  IF c \in Range(LowerLetters) THEN 96 + IndexOf(LowerLetters, c)
  ELSE IF c \in Range(UpperLetters) THEN 64 + IndexOf(UpperLetters, c)
  ELSE IF c \in Range(Digits) THEN 47 + IndexOf(Digits, c)
  ELSE IF c = "_" THEN 95
  ELSE IF c = "-" THEN 45
  ELSE IF c = "<" THEN 60
  ELSE IF c = ">" THEN 62
  ELSE 32

\* String.prototype.toLowerCase, one character
LowerChar(c) ==
  IF c \in Range(UpperLetters) THEN LowerLetters[IndexOf(UpperLetters, c)] ELSE c

toLowerCase(s) == [k \in DOMAIN s |-> LowerChar(s[k])]

\* \s of the regular expressions
IsSpace(c) == c = " "

\* \w of the regular expressions
IsWordChar(c) ==
  c \in Range(LowerLetters) \cup Range(UpperLetters) \cup Range(Digits) \cup {"_"}

RECURSIVE TrimLeft(_)
TrimLeft(s) == IF s # <<>> /\ IsSpace(Head(s)) THEN TrimLeft(Tail(s)) ELSE s

RECURSIVE TrimRight(_)
TrimRight(s) ==
  IF s # <<>> /\ IsSpace(s[Len(s)]) THEN TrimRight(SubSeq(s, 1, Len(s) - 1)) ELSE s

\* String.prototype.trim
trim(s) == TrimRight(TrimLeft(s))

\* String.prototype.includes
includes(s, sub) ==
  \E k \in 0..(Len(s) - Len(sub)) : SubSeq(s, k + 1, k + Len(sub)) = sub

RECURSIVE SplitFrom(_, _)
\* split(/\s+/): cur is the piece being read
SplitFrom(s, cur) ==
  IF s = <<>> THEN <<cur>>
  ELSE IF IsSpace(Head(s))
       THEN <<cur>> \o SplitFrom(TrimLeft(s), <<>>)
       ELSE SplitFrom(Tail(s), Append(cur, Head(s)))

SplitSpaces(s) == SplitFrom(s, <<>>)

(***************************************************************************)
(* Text preprocessing and tokenizing (embedding-classifier.ts)             *)
(***************************************************************************)
\* index of the first ">" of s, 0 if there is none
FirstClose(s) ==
  IF \E k \in DOMAIN s : s[k] = ">"
  THEN CHOOSE k \in DOMAIN s : s[k] = ">" /\ \A j \in 1..(k - 1) : s[j] # ">"
  ELSE 0

RECURSIVE RemoveHtmlTags(_)
\* text.replace(/<[^>]+>/g, '')
RemoveHtmlTags(s) ==
  IF s = <<>> THEN <<>>
  ELSE IF Head(s) = "<" /\ FirstClose(Tail(s)) >= 2
       THEN RemoveHtmlTags(SubSeq(s, FirstClose(Tail(s)) + 2, Len(s)))
       ELSE <<Head(s)>> \o RemoveHtmlTags(Tail(s))

\* text.replace(/[^\w\s]/g, ' ')
RemoveSpecial(s) ==
  [k \in DOMAIN s |-> IF IsWordChar(s[k]) \/ IsSpace(s[k]) THEN s[k] ELSE " "]

RECURSIVE CollapseSpaces(_)
\* text.replace(/\s+/g, ' ')
CollapseSpaces(s) ==
  IF s = <<>> THEN <<>>
  ELSE IF IsSpace(Head(s)) THEN <<" ">> \o CollapseSpaces(TrimLeft(s))
       ELSE <<Head(s)>> \o CollapseSpaces(Tail(s))

\* preprocessText.  The texts of the model are made of letters, spaces, "<"
\* and ">": they hold no frontmatter fence, markdown link or image, code
\* span or phrase of the synonym table, so those replacements leave them
\* as they are; the remaining steps are computed.
preprocessText(text) ==
  trim(CollapseSpaces(RemoveSpecial(toLowerCase(RemoveHtmlTags(text)))))

\* tokenize: lower-case, split on white space, keep words of length >= 2
tokenize(text) ==
  SelectSeq(SplitSpaces(toLowerCase(text)), LAMBDA word : Len(word) >= 2)

(***************************************************************************)
(* hashWord: hash = ((hash << 5) - hash) + charCode, cut to 32 bits after  *)
(* every character, then Math.abs.  The 32-bit value is kept as two 16-bit *)
(* halves <<hi, lo>> so that no intermediate result leaves the integers of *)
(* the model checker.                                                      *)
(***************************************************************************)
RECURSIVE HashFrom(_, _)
HashFrom(word, h) ==
  IF word = <<>> THEN h
  ELSE LET lo == h[2] * 31 + charCodeAt(Head(word))
           hi == h[1] * 31 + (lo \div 65536)
       IN HashFrom(Tail(word), <<hi % 65536, lo % 65536>>)

\* Math.abs of the 32-bit two's complement value <<hi, lo>>
Abs32(h) ==
  IF h[1] < 32768 THEN h[1] * 65536 + h[2]
  ELSE (65535 - h[1]) * 65536 + (65536 - h[2])

hashWord(word) == Abs32(HashFrom(word, <<0, 0>>))

(***************************************************************************)
(* Numbers                                                                 *)
(***************************************************************************)
\* fixed-point units per 1.0
FP == 10 * 100

\* the value of an arithmetic result that is NaN in the code; every
\* comparison with it is false
NaN == 0 - 10 * FP * FP

\* a >= b of the code, on numbers that may be NaN
GEq(a, b) == a # NaN /\ b # NaN /\ a >= b

\* Math.log of 1..16, in fixed point
LnTable ==
  <<0, 693, 1099, 1386, 1609, 1792, 1946, 2079,
    2197, 2303, 2398, 2485, 2565, 2639, 2708, 2773>>

\* Math.log(p / q) for 1 <= p, q <= 16
Log(p, q) == LnTable[p] - LnTable[q]

(***************************************************************************)
(* Configuration constants of EmbeddingClassifier, in fixed point          *)
(***************************************************************************)
DIMENSIONS == 1024
MIN_WORD_OVERLAP == 400
HIGH_OVERLAP_THRESHOLD == 600
ADDITIONAL_SIMILARITY_REQUIRED == 250
COMMON_WORD_THRESHOLD == 600
DISTINCTIVE_IDF_THRESHOLD == 2000
TOP_DISTINCTIVE_WORDS == 20
\* k1 of the BM25-style saturation in generateEmbedding
K1 == 1500
\* idf of a word with no frequency data in generateEmbedding
BASELINE_IDF == 2000

(***************************************************************************)
(* The strings of the model: document texts, words, tag names              *)
(***************************************************************************)
\* "aa bb"
TextAaBb == <<"a","a"," ","b","b">>
\* "cc"
TextCc == <<"c","c">>
\* "Aa <i>cc": upper case and an HTML tag, tokens aa cc
TextAaCc == <<"A","a"," ","<","i",">","c","c">>
\* "aa bb cc"
TextAaBbCc == <<"a","a"," ","b","b"," ","c","c">>
\* ""
TextEmpty == <<>>

\* "python", "py": a pair of normalizeTag's synonym table
TagPython == <<"p","y","t","h","o","n">>
TagPy == <<"p","y">>
\* "python-django": its name contains "python"
TagPythonDjango == <<"p","y","t","h","o","n","-","d","j","a","n","g","o">>
\* "Python": a tag with an upper-case letter
TagPythonUpper == <<"P","y","t","h","o","n">>
\* "go": a tag unrelated to the others
TagGo == <<"g","o">>
\* "toString": a property every JavaScript object inherits from
\* Object.prototype; no document of the model carries it as a tag
TagToString == <<"t","o","S","t","r","i","n","g">>

AllTexts == {TextAaBb, TextCc, TextAaCc, TextAaBbCc, TextEmpty}

\* the words the texts of the model tokenize to
Vocabulary == UNION {Range(tokenize(preprocessText(t))) : t \in AllTexts}

Salt1 == <<"_","s","a","l","t","1">>
Salt2 == <<"_","s","a","l","t","2">>

\* the three dimensions a word is spread over in generateEmbedding
WordDims ==
  [w \in Vocabulary |->
     <<hashWord(w) % DIMENSIONS,
       hashWord(w \o Salt1) % DIMENSIONS,
       hashWord(w \o Salt2) % DIMENSIONS>>]

\* the dimensions that can be non-zero in a vector of the model
UsedDims == UNION {Range(WordDims[w]) : w \in Vocabulary}

(***************************************************************************)
(* Vectors                                                                 *)
(***************************************************************************)
ZeroVec == [d \in UsedDims |-> 0]

\* a number[] of the code: its values on UsedDims (0 elsewhere), its length,
\* and whether all its values are finite.  isArray is FALSE for a value
\* that is not an array at all.
Array(v) == [isArray |-> TRUE, length |-> DIMENSIONS, finite |-> TRUE, at |-> v]

\* the function object found under an inherited key such as "toString"
InheritedFunction ==
  [isArray |-> FALSE, length |-> 0, finite |-> TRUE, at |-> ZeroVec]

SumSquares(v) == SumOver([d \in DOMAIN v |-> v[d] * v[d]], DOMAIN v)

Dot(a, b) == SumOver([d \in DOMAIN a |-> a[d] * b[d]], DOMAIN a)

\* v / norm, component by component
Normalized(v) ==
  LET norm == Sqrt(SumSquares(v))
  IN IF norm > 0 THEN [d \in DOMAIN v |-> (v[d] * FP) \div norm] ELSE v

\* tokenize(preprocessText(text)), computed once per text of the model
TokensOf == [t \in AllTexts |-> tokenize(preprocessText(t))]

(***************************************************************************)
(* generateEmbedding(text, normalize) with this.docFrequency = df and      *)
(* this.totalDocs = n.  A weight is a product of finite numbers (docFreq   *)
(* and totalDocs are positive where the logarithm is taken), so the        *)
(* "invalid weight" branch is never taken.                                 *)
(***************************************************************************)
generateEmbedding(df, n, text, normalize) ==
  LET words == TokensOf[text]
      freq(w) == Cardinality({k \in DOMAIN words : words[k] = w})
      docFreq(w) == IF w \in DOMAIN df THEN df[w] ELSE 0
      common(w) == n > 0 /\ docFreq(w) * FP > COMMON_WORD_THRESHOLD * n
      tfSaturated(w) == (freq(w) * (K1 + FP) * FP) \div (freq(w) * FP + K1)
      tfNormalized(w) ==
        IF Len(words) > 0 THEN tfSaturated(w) \div Len(words) ELSE 0
      idf(w) ==
        IF n > 0 /\ docFreq(w) > 0
        THEN Log(n + 1, docFreq(w)) + 2 * FP
        ELSE BASELINE_IDF
      weight(w) == (tfNormalized(w) * idf(w)) \div FP
      \* tenths of the weight of w that go to dimension d: 0.5 to the
      \* first hash, 0.3 to the second, 0.2 to the third
      tenths(dims, d) ==
        (IF dims[1] = d THEN 5 ELSE 0) + (IF dims[2] = d THEN 3 ELSE 0)
          + (IF dims[3] = d THEN 2 ELSE 0)
      part(w, d) == (weight(w) * tenths(WordDims[w], d)) \div 10
      kept == {w \in Range(words) : ~common(w)}
      embedding ==
        [d \in UsedDims |-> SumOver([w \in kept |-> part(w, d)], kept)]
  IN IF normalize THEN Normalized(embedding) ELSE embedding

(***************************************************************************)
(* cosineSimilarity(a, b): a is the document's embedding, b what was found *)
(* under the tag's key.  The loop runs over a's 1024 indices; where b has  *)
(* no number (b is no array, is shorter, or holds a non-finite value) the  *)
(* products are NaN, and the result is 0 if normA is 0 and NaN otherwise.  *)
(***************************************************************************)
cosineSimilarity(a, b) ==
  LET normA == SumSquares(a)
      normB == SumSquares(b.at)
  IN IF ~b.isArray \/ b.length < DIMENSIONS \/ ~b.finite
     THEN IF normA = 0 THEN 0 ELSE NaN
     ELSE IF normA = 0 \/ normB = 0 THEN 0
     ELSE (Dot(a, b.at) * FP) \div (Sqrt(normA) * Sqrt(normB))

(***************************************************************************)
(* Tag normalization (embedding-classifier.ts, advanced-classifier.ts)     *)
(***************************************************************************)
\* s.replace(/[\s_-]+/g, '')
RemoveSeparators(s) ==
  SelectSeq(s, LAMBDA c : ~(IsSpace(c) \/ c = "_" \/ c = "-"))

\* the synonymMap of normalizeTag, as <<key, value>> pairs
synonymMap == {
  <<<<"a","r","t","i","f","i","c","i","a","l","i","n","t","e","l","l","i","g","e","n","c","e">>,
    <<"a","i">>>>,
  <<<<"m","a","c","h","i","n","e","l","e","a","r","n","i","n","g">>,
    <<"m","l">>>>,
  <<<<"d","e","e","p","l","e","a","r","n","i","n","g">>,
    <<"d","l">>>>,
  <<<<"n","a","t","u","r","a","l","l","a","n","g","u","a","g","e","p","r","o","c","e","s","s","i","n","g">>,
    <<"n","l","p">>>>,
  <<<<"u","s","e","r","e","x","p","e","r","i","e","n","c","e">>,
    <<"u","x">>>>,
  <<<<"u","s","e","r","i","n","t","e","r","f","a","c","e">>,
    <<"u","i">>>>,
  <<<<"s","e","a","r","c","h","e","n","g","i","n","e","o","p","t","i","m","i","z","a","t","i","o","n">>,
    <<"s","e","o">>>>,
  <<<<"j","a","v","a","s","c","r","i","p","t">>,
    <<"j","s">>>>,
  <<<<"t","y","p","e","s","c","r","i","p","t">>,
    <<"t","s">>>>,
  <<<<"p","y","t","h","o","n">>,
    <<"p","y">>>>
}

\* a normalizeTag that consults no synonym table
SeparatorsOnly(tag) == RemoveSeparators(trim(toLowerCase(tag)))

\* normalizeTag of EmbeddingClassifier: synonymMap[normalized] || normalized
normalizeTag(tag) ==
  LET normalized == RemoveSeparators(trim(toLowerCase(tag)))
  IN IF \E e \in synonymMap : e[1] = normalized
     THEN (CHOOSE e \in synonymMap : e[1] = normalized)[2]
     ELSE normalized

\* normalizeTagLocal of AdvancedEmbeddingClassifier
normalizeTagLocal(tag) == RemoveSeparators(trim(toLowerCase(tag)))

(***************************************************************************)
(* Tag hierarchy heuristics (advanced-classifier.ts)                       *)
(***************************************************************************)
\* the hierarchies table of isSemanticChild, as <<parentKey, children>> pairs
hierarchies == {
  <<<<"a","i">>,
    {<<"a","r","t","i","f","i","c","i","a","l"," ","i","n","t","e","l","l","i","g","e","n","c","e">>,
     <<"m","a","c","h","i","n","e"," ","l","e","a","r","n","i","n","g">>,
     <<"d","e","e","p"," ","l","e","a","r","n","i","n","g">>,
     <<"n","e","u","r","a","l"," ","n","e","t","w","o","r","k">>}>>,
  <<<<"p","r","o","g","r","a","m","m","i","n","g">>,
    {<<"p","y","t","h","o","n">>,
     <<"j","a","v","a","s","c","r","i","p","t">>,
     <<"t","y","p","e","s","c","r","i","p","t">>,
     <<"j","a","v","a">>,
     <<"c","o","d","i","n","g">>,
     <<"d","e","v","e","l","o","p","m","e","n","t">>}>>,
  <<<<"l","e","a","r","n","i","n","g">>,
    {<<"m","a","c","h","i","n","e"," ","l","e","a","r","n","i","n","g">>,
     <<"d","e","e","p"," ","l","e","a","r","n","i","n","g">>,
     <<"r","e","i","n","f","o","r","c","e","m","e","n","t"," ","l","e","a","r","n","i","n","g">>}>>,
  <<<<"d","a","t","a">>,
    {<<"d","a","t","a"," ","s","c","i","e","n","c","e">>,
     <<"d","a","t","a"," ","a","n","a","l","y","s","i","s">>,
     <<"d","a","t","a","b","a","s","e">>,
     <<"d","a","t","a","s","e","t">>}>>,
  <<<<"w","e","b">>,
    {<<"w","e","b"," ","d","e","v","e","l","o","p","m","e","n","t">>,
     <<"f","r","o","n","t","e","n","d">>,
     <<"b","a","c","k","e","n","d">>,
     <<"f","u","l","l","s","t","a","c","k">>}>>,
  <<<<"s","c","i","e","n","c","e">>,
    {<<"d","a","t","a"," ","s","c","i","e","n","c","e">>,
     <<"c","o","m","p","u","t","e","r"," ","s","c","i","e","n","c","e">>,
     <<"r","e","s","e","a","r","c","h">>}>>
}

isSemanticChild(child, parent) ==
  \E h \in hierarchies :
    includes(parent, h[1]) /\ \E c \in h[2] : includes(child, c)

\* tag.toLowerCase().replace(/[_-]/g, ' ')
HierarchyName(tag) ==
  LET lower == toLowerCase(tag)
  IN [k \in DOMAIN lower |->
        IF lower[k] = "_" \/ lower[k] = "-" THEN " " ELSE lower[k]]

\* the condition under which buildTagHierarchy links tag to potentialParent
IsChildOf(tag, potentialParent) ==
  /\ tag # potentialParent
  /\ \/ includes(HierarchyName(tag), HierarchyName(potentialParent))
     \/ isSemanticChild(HierarchyName(tag), HierarchyName(potentialParent))

(***************************************************************************)
(* The objects behind tagEmbeddings, tagDocCounts and tagDistinctiveWords. *)
(*                                                                         *)
(* The three are created together (field initializers, reset) and handed   *)
(* over together (export returns the three objects themselves, import      *)
(* stores the three objects it is given), so the model keeps them in one   *)
(* heap cell, a "store":                                                   *)
(*   order                the own keys of tagEmbeddings, in insertion      *)
(*                        order (Object.keys, for...in)                    *)
(*   tagEmbeddings        key -> array                                     *)
(*   tagDocCounts         key -> number (NaN after undefined++)            *)
(*   tagDistinctiveWords  key -> sequence of words                         *)
(* All three are plain objects, so a key such as "toString" that is not an *)
(* own key is still found, on Object.prototype.                            *)
(***************************************************************************)
EmptyStore ==
  [order |-> <<>>, tagEmbeddings |-> <<>>, tagDocCounts |-> <<>>,
   tagDistinctiveWords |-> <<>>]

ObjectPrototypeKeys == {TagToString}

\* whether this.tagEmbeddings[t] is truthy
HasEmbedding(store, t) ==
  t \in DOMAIN store.tagEmbeddings \/ t \in ObjectPrototypeKeys

\* this.tagEmbeddings[t], for a t with HasEmbedding
EmbeddingOf(store, t) ==
  IF t \in DOMAIN store.tagEmbeddings THEN store.tagEmbeddings[t]
  ELSE InheritedFunction

\* this.tagDistinctiveWords[tag] || [].  Under an inherited key the value
\* is a function object whose length is 0 (Object.prototype.toString takes
\* no parameters), which the overlap computation treats like [].
DistinctiveWordsOf(store, t) ==
  IF t \in DOMAIN store.tagDistinctiveWords THEN store.tagDistinctiveWords[t]
  ELSE <<>>

\* f with f[k] set to v, k added to the domain if need be
Put(f, k, v) == [x \in DOMAIN f \cup {k} |-> IF x = k THEN v ELSE f[x]]

\* s without duplicates, first occurrences kept (the order of new Set(s))
RECURSIVE Unique(_)
Unique(s) ==
  IF s = <<>> THEN <<>>
  ELSE LET init == Unique(SubSeq(s, 1, Len(s) - 1))
       IN IF s[Len(s)] \in Range(init) THEN init ELSE Append(init, s[Len(s)])

(***************************************************************************)
(* train(text, tags): the new trainingBuffer, totalDocs and docFrequency   *)
(***************************************************************************)
RECURSIVE CountWords(_, _)
\* docFrequency after counting each word of the sequence once more
CountWords(df, words) ==
  IF words = <<>> THEN df
  ELSE CountWords(
         Put(df, Head(words),
             (IF Head(words) \in DOMAIN df THEN df[Head(words)] ELSE 0) + 1),
         Tail(words))

(***************************************************************************)
(* finalizeTraining of EmbeddingClassifier, on the store the instance      *)
(* references.                                                             *)
(***************************************************************************)
\* one pass of the inner loop "for (const tag of tags)"
AccumulateOne(store, embedding, tag) ==
  LET fresh == ~HasEmbedding(store, tag)
      old == IF fresh THEN Array(ZeroVec) ELSE store.tagEmbeddings[tag]
      oldCount ==
        IF fresh THEN 0
        ELSE IF tag \in DOMAIN store.tagDocCounts THEN store.tagDocCounts[tag]
        ELSE NaN
  IN [store EXCEPT
        !.order = IF fresh THEN Append(@, tag) ELSE @,
        !.tagEmbeddings =
          Put(@, tag,
              [old EXCEPT !.at = [d \in DOMAIN embedding |-> old.at[d] + embedding[d]]]),
        !.tagDocCounts =
          Put(@, tag, IF oldCount = NaN THEN NaN ELSE oldCount + 1)]

RECURSIVE AccumulateTags(_, _, _)
AccumulateTags(store, embedding, tags) ==
  IF tags = <<>> THEN store
  ELSE AccumulateTags(AccumulateOne(store, embedding, Head(tags)),
                      embedding, Tail(tags))

RECURSIVE AccumulateBuffer(_, _, _, _)
\* the second pass over the buffer: raw embeddings summed per tag
AccumulateBuffer(store, buffer, df, n) ==
  IF buffer = <<>> THEN store
  ELSE AccumulateBuffer(
         AccumulateTags(store,
                        generateEmbedding(df, n, Head(buffer).text, FALSE),
                        Head(buffer).tags),
         Tail(buffer), df, n)

\* an averaging that leaves out the normalization
AverageOnly(emb, count) ==
  IF ~GEq(count, 1) THEN emb
  ELSE IF ~emb.finite THEN Array(ZeroVec)
  ELSE [emb EXCEPT !.at = [d \in DOMAIN @ |-> @[d] \div count]]

\* "Average and normalize", for one tag's array and count
AverageAndNormalize(emb, count) ==
  IF ~GEq(count, 1) THEN emb
  ELSE IF ~emb.finite THEN Array(ZeroVec)
  ELSE [emb EXCEPT !.at = Normalized([d \in DOMAIN @ |-> @[d] \div count])]

\* buildDistinctiveWords(tag)
buildDistinctiveWords(tag, buffer, df, n) ==
  LET tagDocs == SelectSeq(buffer, LAMBDA doc : tag \in Range(doc.tags))
      uniqueWords(k) == Unique(TokensOf[tagDocs[k].text])
      idf(w) == Log(n + 1, IF w \in DOMAIN df /\ df[w] # 0 THEN df[w] ELSE 1)
      distinctive(w) == idf(w) > DISTINCTIVE_IDF_THRESHOLD
      \* the keys of tagWordScores, in insertion order
      RECURSIVE Keys(_)
      Keys(k) ==
        IF k = 0 THEN <<>>
        ELSE Unique(Keys(k - 1) \o SelectSeq(uniqueWords(k), distinctive))
      words == Keys(Len(tagDocs))
      score(w) ==
        idf(w) * Cardinality({k \in DOMAIN tagDocs : w \in Range(uniqueWords(k))})
      \* position of w after the stable sort by descending score
      rank(k) ==
        Cardinality({j \in DOMAIN words :
                       \/ score(words[j]) > score(words[k])
                       \/ score(words[j]) = score(words[k]) /\ j < k}) + 1
      sorted == [r \in DOMAIN words |->
                   words[CHOOSE k \in DOMAIN words : rank(k) = r]]
  IN SubSeq(sorted, 1, IF Len(sorted) < TOP_DISTINCTIVE_WORDS
                       THEN Len(sorted) ELSE TOP_DISTINCTIVE_WORDS)

\* the loop "Average and normalize tag embeddings" over the store's tags
AverageAll(store) ==
  [store EXCEPT
     !.tagEmbeddings =
       [t \in Range(store.order) |->
          AverageAndNormalize(
            @[t],
            IF t \in DOMAIN store.tagDocCounts THEN store.tagDocCounts[t]
            ELSE NaN)]]

\* the loop "Build distinctive word cache for each tag"
CacheDistinctiveWords(store, buffer, df, n) ==
  [store EXCEPT
     !.tagDistinctiveWords =
       [t \in DOMAIN @ \cup Range(store.order) |->
          IF t \in Range(store.order)
          THEN buildDistinctiveWords(t, buffer, df, n)
          ELSE @[t]]]

\* the store after finalizeTraining
FinalizedStore(store, buffer, df, n) ==
  CacheDistinctiveWords(AverageAll(AccumulateBuffer(store, buffer, df, n)),
                        buffer, df, n)

(***************************************************************************)
(* Array helpers                                                           *)
(***************************************************************************)
\* seq.sort((a, b) => key(b) - key(a)), key[k] the key of seq[k]:
\* descending, stable
SortDescBy(seq, key) ==
  LET rank(k) ==
        Cardinality({j \in DOMAIN seq :
                       \/ key[j] > key[k]
                       \/ key[j] = key[k] /\ j < k}) + 1
  IN [r \in DOMAIN seq |-> seq[CHOOSE k \in DOMAIN seq : rank(k) = r]]

\* seq.slice(0, n)
Slice(seq, n) ==
  SubSeq(seq, 1, IF n < 0 THEN 0 ELSE IF n < Len(seq) THEN n ELSE Len(seq))

\* seq.map(({ tag, probability }) => ({ tag, probability }))
TagAndProbability(seq) ==
  [k \in DOMAIN seq |-> [tag |-> seq[k].tag, probability |-> seq[k].probability]]

\* tagWords.filter(w => docWords.has(w)).length / tagWords.length, or 1.0
WordOverlap(tagWords, docWords) ==
  IF Len(tagWords) > 0
  THEN (Cardinality({k \in DOMAIN tagWords : tagWords[k] \in docWords}) * FP)
         \div Len(tagWords)
  ELSE FP

\* a classify that asks for no word overlap
OverlapNotRequired(overlap) == TRUE

\* const meetsOverlapThreshold = overlap >= this.MIN_WORD_OVERLAP
meetsOverlapThreshold(overlap) == overlap >= MIN_WORD_OVERLAP

\* const meetsSimilarityThreshold = ...
\* a similarity threshold that asks no more of a borderline overlap
PlainSimilarityThreshold(overlap, similarity, minSimilarity) ==
  GEq(similarity, minSimilarity)

meetsSimilarityThreshold(overlap, similarity, minSimilarity) ==
  IF overlap >= HIGH_OVERLAP_THRESHOLD
  THEN GEq(similarity, minSimilarity)
  ELSE GEq(similarity, minSimilarity + ADDITIONAL_SIMILARITY_REQUIRED)

(***************************************************************************)
(* classify of EmbeddingClassifier.  c is the instance: its store, its     *)
(* totalDocs and its docFrequency.                                         *)
(***************************************************************************)
classify(c, text, whitelist, minSimilarity, maxResults, existingTags) ==
  IF c.store.order = <<>> THEN <<>>
  ELSE
    LET embedding == generateEmbedding(c.docFrequency, c.totalDocs, text, TRUE)
        docWords == Range(TokensOf[text])
        tags ==
          IF Len(whitelist) > 0
          THEN SelectSeq(whitelist, LAMBDA t : HasEmbedding(c.store, t))
          ELSE c.store.order
        existingNormalized ==
          {normalizeTag(existingTags[k]) : k \in DOMAIN existingTags}
        evaluated ==
          [k \in DOMAIN tags |->
             [tag |-> tags[k],
              probability |->
                cosineSimilarity(embedding, EmbeddingOf(c.store, tags[k])),
              overlap |->
                WordOverlap(DistinctiveWordsOf(c.store, tags[k]), docWords)]]
        similarities ==
          SelectSeq(evaluated,
                    LAMBDA r : /\ normalizeTag(r.tag) \notin existingNormalized
                               /\ meetsOverlapThreshold(r.overlap)
                               /\ meetsSimilarityThreshold(r.overlap, r.probability,
                                                           minSimilarity))
        sorted ==
          SortDescBy(similarities,
                     [k \in DOMAIN similarities |->
                        similarities[k].overlap * 7
                          + similarities[k].probability * 3])
    IN TagAndProbability(Slice(sorted, maxResults))

(***************************************************************************)
(* AdvancedEmbeddingClassifier                                             *)
(***************************************************************************)
MIN_OVERLAP == 250
HIGH_SIMILARITY == 550
MODERATE_SIMILARITY == 450
MIN_FEEDBACK == 3

\* Map<string, Set<string>>: a sequence of [key, values] in insertion order,
\* values a sequence without duplicates in insertion order
MapHas(m, key) == \E k \in DOMAIN m : m[k].key = key

MapGet(m, key) == m[CHOOSE k \in DOMAIN m : m[k].key = key].values

\* if (!m.has(key)) m.set(key, new Set()); m.get(key).add(value)
MapAdd(m, key, value) ==
  IF MapHas(m, key)
  THEN [k \in DOMAIN m |->
          IF m[k].key = key /\ value \notin Range(m[k].values)
          THEN [m[k] EXCEPT !.values = Append(@, value)]
          ELSE m[k]]
  ELSE Append(m, [key |-> key, values |-> <<value>>])

\* a < b in the order of Array.prototype.sort() without comparator
RECURSIVE StringLess(_, _)
StringLess(a, b) ==
  IF b = <<>> THEN FALSE
  ELSE IF a = <<>> THEN TRUE
  ELSE IF charCodeAt(Head(a)) # charCodeAt(Head(b))
       THEN charCodeAt(Head(a)) < charCodeAt(Head(b))
  ELSE StringLess(Tail(a), Tail(b))

\* getAllTags(): Object.keys(this.tagEmbeddings).sort()
getAllTags(store) ==
  LET keys == store.order
      rank(k) == Cardinality({j \in DOMAIN keys : StringLess(keys[j], keys[k])}) + 1
  IN [r \in DOMAIN keys |-> keys[CHOOSE k \in DOMAIN keys : rank(k) = r]]

\* the <<tag, potentialParent>> pairs buildTagHierarchy links, in loop order
HierarchyLinks(allTags) ==
  LET n == Len(allTags)
      pairs == [p \in 1..(n * n) |->
                  <<allTags[((p - 1) \div n) + 1], allTags[((p - 1) % n) + 1]>>]
  IN SelectSeq(pairs, LAMBDA pr : IsChildOf(pr[1], pr[2]))

RECURSIVE AddLinks(_, _, _, _)
\* MapAdd of links[k][from] -> links[k][to] for each link in turn
AddLinks(m, links, from, to) ==
  IF links = <<>> THEN m
  ELSE AddLinks(MapAdd(m, Head(links)[from], Head(links)[to]),
                Tail(links), from, to)

\* buildTagHierarchy(): the new tagHierarchy and tagChildren
buildTagHierarchy(store) ==
  LET links == HierarchyLinks(getAllTags(store))
  IN [tagHierarchy |-> AddLinks(<<>>, links, 1, 2),
      tagChildren |-> AddLinks(<<>>, links, 2, 1)]

\* generateNgrams(words)
generateNgrams(words) ==
  LET n == Len(words)
  IN words
     \o [i \in 1..(IF n > 1 THEN n - 1 ELSE 0) |->
           words[i] \o <<"_">> \o words[i + 1]]
     \o [i \in 1..(IF n > 2 THEN n - 2 ELSE 0) |->
           words[i] \o <<"_">> \o words[i + 1] \o <<"_">> \o words[i + 2]]

\* what getTagEmbedding finds when there is nothing to find
Null == "null"

(***************************************************************************)
(* getTagEmbedding(tag): super['tagEmbeddings']?.[tag] || null.  A super   *)
(* property reference is looked up on the prototype of the parent class;   *)
(* tagEmbeddings is a field, an own property of the instance, which no     *)
(* prototype holds.  The reference is undefined for every instance and     *)
(* every tag.                                                              *)
(***************************************************************************)
getTagEmbedding(c, tag) == Null

RECURSIVE Boosted(_, _)
\* probability after n rounds of "childResult.probability *= 1.2"
Boosted(probability, n) ==
  IF n = 0 THEN probability ELSE Boosted((probability * 12) \div 10, n - 1)

\* enhanceWithHierarchy(results, existingTags)
enhanceWithHierarchy(c, results, existingTags) ==
  LET existingSet == {toLowerCase(existingTags[k]) : k \in DOMAIN existingTags}
      childrenOf(existingTag) ==
        IF MapHas(c.tagChildren, toLowerCase(existingTag))
        THEN MapGet(c.tagChildren, toLowerCase(existingTag))
        ELSE <<>>
      \* every child the two loops visit, in order
      RECURSIVE Visits(_)
      Visits(k) ==
        IF k = 0 THEN <<>> ELSE Visits(k - 1) \o childrenOf(existingTags[k])
      visits == Visits(Len(existingTags))
      matches(child) == {k \in DOMAIN results : toLowerCase(results[k].tag) = child}
      \* results.find(...): the first match
      found(child) == CHOOSE k \in matches(child) : \A j \in matches(child) : k <= j
      boosts(k) ==
        Cardinality({v \in DOMAIN visits :
                       matches(visits[v]) # {} /\ found(visits[v]) = k})
      boosted ==
        [k \in DOMAIN results |->
           [results[k] EXCEPT !.probability = Boosted(@, boosts(k))]]
      suggested ==
        SelectSeq(visits, LAMBDA child : /\ matches(child) = {}
                                         /\ child \notin existingSet
                                         /\ getTagEmbedding(c, child) # Null)
      enhanced ==
        boosted \o [k \in DOMAIN suggested |->
                      [tag |-> suggested[k], probability |-> 150]]
  IN SortDescBy(enhanced, [k \in DOMAIN enhanced |-> enhanced[k].probability])

\* adjustWithFeedback(results)
adjustWithFeedback(c, results) ==
  LET adjusted(result) ==
        IF result.tag \notin DOMAIN c.userFeedback THEN result
        ELSE LET feedback == c.userFeedback[result.tag]
                 total == feedback.accepted + feedback.rejected
             IN IF total < MIN_FEEDBACK THEN result
                ELSE IF feedback.accepted * 10 > 7 * total
                     THEN [result EXCEPT !.probability = (@ * 13) \div 10]
                ELSE IF feedback.accepted * 10 < 3 * total
                     THEN [result EXCEPT !.probability = (@ * 7) \div 10]
                ELSE result
  IN [k \in DOMAIN results |-> adjusted(results[k])]

\* a validation that looks for NaN only, not for a magnitude of zero
HasNaN(store) ==
  \E k \in DOMAIN store.order : ~store.tagEmbeddings[store.order[k]].finite

\* "Validate embeddings": whether some own key holds a corrupted embedding
HasCorrupted(store) ==
  \E k \in DOMAIN store.order :
    LET emb == store.tagEmbeddings[store.order[k]]
    IN ~emb.finite \/ SumSquares(emb.at) = 0

\* classify of AdvancedEmbeddingClassifier
classifyAdvanced(c, text, whitelist, minSimilarity, maxResults, existingTags) ==
  IF c.store.order = <<>> THEN <<>>
  ELSE IF HasCorrupted(c.store) THEN <<>>
  ELSE
    LET embedding == generateEmbedding(c.docFrequency, c.totalDocs, text, TRUE)
        words == TokensOf[text]
        docTokens == Range(words) \cup Range(generateNgrams(words))
        tags ==
          IF Len(whitelist) > 0
          THEN SelectSeq(whitelist, LAMBDA t : HasEmbedding(c.store, t))
          ELSE c.store.order
        existingNormalized ==
          {normalizeTagLocal(existingTags[k]) : k \in DOMAIN existingTags}
        evaluated ==
          [k \in DOMAIN tags |->
             [tag |-> tags[k],
              probability |->
                cosineSimilarity(embedding, EmbeddingOf(c.store, tags[k])),
              overlap |->
                WordOverlap(DistinctiveWordsOf(c.store, tags[k]), docTokens)]]
        veryHighSimilarity(r) == GEq(r.probability, HIGH_SIMILARITY)
        goodMatch(r) ==
          GEq(r.probability, MODERATE_SIMILARITY) /\ r.overlap >= MIN_OVERLAP
        similarities ==
          SelectSeq(evaluated,
                    LAMBDA r : /\ normalizeTagLocal(r.tag) \notin existingNormalized
                               /\ (veryHighSimilarity(r) \/ goodMatch(r)))
        getWeight(sim) == IF sim >= 600 THEN 8 ELSE IF sim >= 400 THEN 6 ELSE 5
        score(r) ==
          r.probability * getWeight(r.probability)
            + r.overlap * (10 - getWeight(r.probability))
        sorted ==
          SortDescBy(similarities,
                     [k \in DOMAIN similarities |-> score(similarities[k])])
        baseResults == TagAndProbability(Slice(sorted, maxResults * 2))
        enhancedResults == enhanceWithHierarchy(c, baseResults, existingTags)
        adjustedResults == adjustWithFeedback(c, enhancedResults)
    IN Slice(adjustedResults, maxResults)

(***************************************************************************)
(* State.  Two classifier objects, A and B.  Objects that can be reached   *)
(* from more than one classifier live in a heap: the stores (the three     *)
(* tables) and the feedback counters ({ accepted, rejected } objects).     *)
(***************************************************************************)
Inst == {"A", "B"}

Base == "EmbeddingClassifier"
Advanced == "AdvancedEmbeddingClassifier"
Kinds == {Base, Advanced}

Undefined == "undefined"

\* the tags the model records feedback for
FeedbackTags == {TagPythonDjango}

VARIABLES
  kind,            \* the class of each object
  tables,          \* the store each object's three table fields point to
  heap,            \* the stores
  totalDocs,       \* this.totalDocs
  docFrequency,    \* this.docFrequency, word -> count
  trainingBuffer,  \* this.trainingBuffer
  tagHierarchy,    \* this.tagHierarchy (advanced)
  tagChildren,     \* this.tagChildren (advanced)
  userFeedback,    \* this.userFeedback (advanced): tag -> counter object
  cells,           \* the counter objects
  history,         \* per object: where its state comes from, what it was
                   \* trained on since, how often it was finalized since,
                   \* and per tag the sum of the raw embeddings that
                   \* finalizeTraining generated since
  call,            \* the last call: operation, object, arguments, outcome
  blacklist,       \* the plugin: collection.blacklist of its one collection
  notes            \* the plugin: the notes of the vault, with the tags of
                   \* their frontmatter

vars ==
  <<kind, tables, heap, totalDocs, docFrequency, trainingBuffer, tagHierarchy,
    tagChildren, userFeedback, cells, history, call, blacklist, notes>>

\* the fields of the objects, with what they point to
fields ==
  <<tables, heap, totalDocs, docFrequency, trainingBuffer, tagHierarchy,
    tagChildren, userFeedback, cells>>

NoCounter == [accepted |-> 0, rejected |-> 0]

NewHistory ==
  [origin |-> "new", trained |-> <<>>, rounds |-> 0, raw |-> EmptyStore]

\* the object i as the methods see it, references followed
Instance(i) ==
  [kind |-> kind[i],
   store |-> heap[tables[i]],
   totalDocs |-> totalDocs[i],
   docFrequency |-> docFrequency[i],
   trainingBuffer |-> trainingBuffer[i],
   tagHierarchy |-> tagHierarchy[i],
   tagChildren |-> tagChildren[i],
   userFeedback |->
     [t \in DOMAIN userFeedback[i] |-> cells[<<userFeedback[i][t], t>>]]]

\* an object straight from its constructor, nothing called on it yet
Pristine(i) ==
  /\ history[i] = NewHistory
  /\ DOMAIN userFeedback[i] = {}

\* the notes of the vault: two tagged ones, and one without tags
Vault ==
  [n \in 1..3 |->
     CASE n = 1 -> [content |-> TextAaBb, tags |-> <<TagPythonUpper>>]
       [] n = 2 -> [content |-> TextCc, tags |-> <<TagPythonDjango>>]
       [] n = 3 -> [content |-> TextAaCc, tags |-> <<>>]]

\* the notes suggestions are asked for, and the note that is auto-tagged
SuggestedNotes == {1, 3}
AutoTaggedNotes == {3}

\* the state after "new EmbeddingClassifier()" / "new AdvancedEmbeddingClassifier()"
Constructed(kinds) ==
  /\ kind = kinds
  /\ blacklist = <<>>
  /\ notes = Vault
  /\ tables = [i \in Inst |-> i]
  /\ heap = [id \in Inst |-> EmptyStore]
  /\ totalDocs = [i \in Inst |-> 0]
  /\ docFrequency = [i \in Inst |-> <<>>]
  /\ trainingBuffer = [i \in Inst |-> <<>>]
  /\ tagHierarchy = [i \in Inst |-> <<>>]
  /\ tagChildren = [i \in Inst |-> <<>>]
  /\ userFeedback = [i \in Inst |-> <<>>]
  /\ cells = [c \in Inst \X FeedbackTags |-> NoCounter]
  /\ history = [i \in Inst |-> NewHistory]
  /\ call = [op |-> "new", inst |-> "A", threw |-> FALSE, args |-> <<>>,
             result |-> <<>>]

\* the outcome of a call that returns nothing
Returned(op, i, args) ==
  [op |-> op, inst |-> i, threw |-> FALSE, args |-> args, result |-> <<>>]

\* a store no other object points to: the one i has if it is i's alone
FreshStore(i) ==
  IF \A j \in Inst \ {i} : tables[j] # tables[i] THEN tables[i]
  ELSE CHOOSE id \in Inst : \A j \in Inst : tables[j] # id

\* a counter object for tag t that no object points to
FreshCell(t) ==
  CHOOSE id \in Inst :
    \A j \in Inst : t \in DOMAIN userFeedback[j] => userFeedback[j][t] # id

(***************************************************************************)
(* train(text, tags)                                                       *)
(***************************************************************************)
Train(i, doc, maxDocs) ==
  /\ totalDocs[i] < maxDocs
  /\ Len(trainingBuffer[i]) < maxDocs
  /\ IF Len(doc.tags) = 0
     THEN UNCHANGED <<trainingBuffer, totalDocs, docFrequency, history>>
     ELSE /\ trainingBuffer' = [trainingBuffer EXCEPT ![i] = Append(@, doc)]
          /\ totalDocs' = [totalDocs EXCEPT ![i] = @ + 1]
          /\ docFrequency' =
               [docFrequency EXCEPT
                  ![i] = CountWords(@, Unique(TokensOf[doc.text]))]
          /\ history' = [history EXCEPT ![i].trained = Append(@, doc)]
  /\ call' = Returned("train", i, <<>>)
  /\ UNCHANGED <<blacklist, notes, kind, tables, heap, tagHierarchy, tagChildren, userFeedback,
                 cells>>

(***************************************************************************)
(* finalizeTraining(), of the object's class                               *)
(***************************************************************************)
FinalizeTraining(i, maxRounds) ==
  /\ history[i].rounds < maxRounds
  /\ heap' =
       [heap EXCEPT
          ![tables[i]] =
            FinalizedStore(@, trainingBuffer[i], docFrequency[i], totalDocs[i])]
  /\ trainingBuffer' = [trainingBuffer EXCEPT ![i] = <<>>]
  /\ IF kind[i] = Advanced
     THEN /\ tagHierarchy' =
               [tagHierarchy EXCEPT
                  ![i] = buildTagHierarchy(heap'[tables[i]]).tagHierarchy]
          /\ tagChildren' =
               [tagChildren EXCEPT
                  ![i] = buildTagHierarchy(heap'[tables[i]]).tagChildren]
     ELSE UNCHANGED <<tagHierarchy, tagChildren>>
  /\ history' =
       [history EXCEPT
          ![i].rounds = @ + 1,
          ![i].raw =
            AccumulateBuffer(@, trainingBuffer[i], docFrequency[i], totalDocs[i])]
  /\ call' = Returned("finalizeTraining", i, <<>>)
  /\ UNCHANGED <<blacklist, notes, kind, tables, totalDocs, docFrequency, userFeedback, cells>>

(***************************************************************************)
(* classify(text, whitelist, minSimilarity, maxResults, existingTags), of  *)
(* the object's class.  It changes no field.                               *)
(***************************************************************************)
Classified(c, request) ==
  IF c.kind = Advanced
  THEN classifyAdvanced(c, request.text, request.whitelist,
                        request.minSimilarity, request.maxResults,
                        request.existingTags)
  ELSE classify(c, request.text, request.whitelist, request.minSimilarity,
                request.maxResults, request.existingTags)

\* a classify that counts the document it is given
ClassifyCounts(i, request) ==
  /\ call' = [op |-> "classify", inst |-> i, threw |-> FALSE,
              args |-> request, result |-> Classified(Instance(i), request)]
  /\ totalDocs' = [totalDocs EXCEPT ![i] = @ + 1]
  /\ UNCHANGED <<blacklist, notes, kind, history, tables, heap, docFrequency, trainingBuffer,
                 tagHierarchy, tagChildren, userFeedback, cells>>

Classify(i, request) ==
  /\ call' = [op |-> "classify", inst |-> i, threw |-> FALSE,
              args |-> request, result |-> Classified(Instance(i), request)]
  /\ UNCHANGED <<blacklist, notes, kind, history>>
  /\ UNCHANGED fields

(***************************************************************************)
(* getStats()                                                              *)
(***************************************************************************)
getStats(c) ==
  [totalDocs |-> c.totalDocs,
   totalTags |-> Cardinality(DOMAIN c.store.tagEmbeddings)]

\* getTagDocCount(tag) for a tag that is no key of Object.prototype:
\* this.tagDocCounts[tag] || 0
getTagDocCount(c, tag) ==
  IF tag \in DOMAIN c.store.tagDocCounts /\ c.store.tagDocCounts[tag] # NaN
  THEN c.store.tagDocCounts[tag]
  ELSE 0

GetStats(i) ==
  /\ call' = [op |-> "getStats", inst |-> i, threw |-> FALSE, args |-> <<>>,
              result |-> getStats(Instance(i))]
  /\ UNCHANGED <<blacklist, notes, kind, history>>
  /\ UNCHANGED fields

(***************************************************************************)
(* recordFeedback(tag, accepted)                                           *)
(***************************************************************************)
RecordFeedback(i, tag, accepted, maxFeedback) ==
  /\ kind[i] = Advanced
  /\ LET has == tag \in DOMAIN userFeedback[i]
         id == IF has THEN userFeedback[i][tag] ELSE FreshCell(tag)
         feedback == IF has THEN cells[<<id, tag>>] ELSE NoCounter
     IN /\ feedback.accepted + feedback.rejected < maxFeedback
        /\ userFeedback' = [userFeedback EXCEPT ![i] = Put(@, tag, id)]
        /\ cells' =
             [cells EXCEPT
                ![<<id, tag>>] =
                  IF accepted THEN [feedback EXCEPT !.accepted = @ + 1]
                  ELSE [feedback EXCEPT !.rejected = @ + 1]]
  /\ call' = Returned("recordFeedback", i, <<>>)
  /\ UNCHANGED <<blacklist, notes, kind, tables, heap, totalDocs, docFrequency, trainingBuffer,
                 tagHierarchy, tagChildren, history>>

(***************************************************************************)
(* reset().  AdvancedEmbeddingClassifier does not override it.             *)
(***************************************************************************)
\* a reset that leaves the three tables as they are
ResetKeepsTables(i) ==
  /\ totalDocs' = [totalDocs EXCEPT ![i] = 0]
  /\ docFrequency' = [docFrequency EXCEPT ![i] = <<>>]
  /\ trainingBuffer' = [trainingBuffer EXCEPT ![i] = <<>>]
  /\ history' = [history EXCEPT ![i] = [NewHistory EXCEPT !.origin = "reset"]]
  /\ call' = Returned("reset", i, <<>>)
  /\ UNCHANGED <<blacklist, notes, kind, tables, heap, tagHierarchy, tagChildren, userFeedback,
                 cells>>

Reset(i) ==
  /\ tables' = [tables EXCEPT ![i] = FreshStore(i)]
  /\ heap' = [heap EXCEPT ![FreshStore(i)] = EmptyStore]
  /\ totalDocs' = [totalDocs EXCEPT ![i] = 0]
  /\ docFrequency' = [docFrequency EXCEPT ![i] = <<>>]
  /\ trainingBuffer' = [trainingBuffer EXCEPT ![i] = <<>>]
  /\ history' = [history EXCEPT ![i] = [NewHistory EXCEPT !.origin = "reset"]]
  /\ call' = Returned("reset", i, <<>>)
  /\ UNCHANGED <<blacklist, notes, kind, tagHierarchy, tagChildren, userFeedback, cells>>

(***************************************************************************)
(* export() and import(data)                                               *)
(*                                                                         *)
(* A snapshot is a record:                                                 *)
(*   present       FALSE for import(undefined) / import(null)              *)
(*   totalDocs     [type, value]: typeof data.totalDocs and the number     *)
(*   source        "export": the three tables are the store named by the   *)
(*                 field store (export hands out the objects themselves);  *)
(*                 "literal": the field store holds tables of the         *)
(*                 snapshot's own (parsed JSON)                            *)
(*   docFrequency  word -> count (a fresh object in both cases)            *)
(*   tagHierarchy  [defined, value]: whether the snapshot has the field,   *)
(*                 and tag -> parents                                      *)
(*   userFeedback  [defined, value]: whether the snapshot has the field,   *)
(*                 and tag -> counter object                               *)
(***************************************************************************)
Export(j) ==
  [present |-> TRUE,
   totalDocs |-> [type |-> "number", value |-> totalDocs[j]],
   source |-> "export",
   store |-> tables[j],
   docFrequency |-> docFrequency[j],
   tagHierarchy |-> [defined |-> kind[j] = Advanced, value |-> tagHierarchy[j]],
   userFeedback |-> [defined |-> kind[j] = Advanced, value |-> userFeedback[j]]]

\* an import that throws for a missing snapshot only
RejectsMissingOnly(data) == ~data.present

\* the two checks that throw
ImportRejected(data) ==
  \/ ~data.present
  \/ data.totalDocs.type # "number"
  \/ data.totalDocs.value < 0

\* !Array.isArray(embedding) || embedding.length !== this.DIMENSIONS
InvalidEmbedding(embedding) ==
  ~embedding.isArray \/ embedding.length # DIMENSIONS

\* an import that validates no embedding
NotValidated(store) == store

\* "Validate embeddings dimensions": the three deletes per invalid entry
ValidatedStore(store) ==
  LET invalid ==
        {t \in Range(store.order) : InvalidEmbedding(store.tagEmbeddings[t])}
  IN [order |-> SelectSeq(store.order, LAMBDA t : t \notin invalid),
      tagEmbeddings |->
        [t \in DOMAIN store.tagEmbeddings \ invalid |-> store.tagEmbeddings[t]],
      tagDocCounts |->
        [t \in DOMAIN store.tagDocCounts \ invalid |-> store.tagDocCounts[t]],
      tagDistinctiveWords |->
        [t \in DOMAIN store.tagDistinctiveWords \ invalid |->
           store.tagDistinctiveWords[t]]]

\* an import that restores no docFrequency
NoDocFrequency(data) == <<>>

\* "Restore docFrequency Map"
ImportedDocFrequency(data) ==
  [w \in {x \in DOMAIN data.docFrequency : data.docFrequency[x] > 0} |->
     data.docFrequency[w]]

RECURSIVE ParentLinks(_)
\* the <<tag, parent>> pairs of a snapshot's tagHierarchy, in loop order
ParentLinks(h) ==
  IF h = <<>> THEN <<>>
  ELSE [k \in DOMAIN Head(h).values |-> <<Head(h).key, Head(h).values[k]>>]
         \o ParentLinks(Tail(h))

\* "Import tag hierarchy": the new tagHierarchy and tagChildren
ImportedHierarchy(h) ==
  [tagHierarchy |->
     [k \in DOMAIN h |-> [key |-> h[k].key, values |-> Unique(h[k].values)]],
   tagChildren |-> AddLinks(<<>>, ParentLinks(h), 2, 1)]

\* import(data), of the object's class; from names what data was taken from
Import(i, data, from) ==
  IF ImportRejected(data)
  THEN /\ call' = [op |-> "import", inst |-> i, threw |-> TRUE,
                   args |-> [data |-> data, from |-> from, intoNew |-> Pristine(i)],
                   result |-> <<>>]
       /\ UNCHANGED <<blacklist, notes, kind, history>>
       /\ UNCHANGED fields
  ELSE
    LET id == IF data.source = "export" THEN data.store ELSE FreshStore(i)
        given == IF data.source = "export" THEN heap[data.store] ELSE data.store
        pointers == [tables EXCEPT ![i] = id]
        withHierarchy == kind[i] = Advanced /\ data.tagHierarchy.defined
        withFeedback == kind[i] = Advanced /\ data.userFeedback.defined
        counters ==
          IF withFeedback THEN [userFeedback EXCEPT ![i] = data.userFeedback.value]
          ELSE userFeedback
    IN /\ tables' = pointers
       \* a store or counter nothing points to any more is left out of account
       /\ heap' =
            [x \in Inst |->
               IF x = id THEN ValidatedStore(given)
               ELSE IF \E j \in Inst : pointers[j] = x THEN heap[x]
               ELSE EmptyStore]
       /\ totalDocs' = [totalDocs EXCEPT ![i] = data.totalDocs.value]
       /\ docFrequency' = [docFrequency EXCEPT ![i] = ImportedDocFrequency(data)]
       /\ tagHierarchy' =
            IF withHierarchy
            THEN [tagHierarchy EXCEPT
                    ![i] = ImportedHierarchy(data.tagHierarchy.value).tagHierarchy]
            ELSE tagHierarchy
       /\ tagChildren' =
            IF withHierarchy
            THEN [tagChildren EXCEPT
                    ![i] = ImportedHierarchy(data.tagHierarchy.value).tagChildren]
            ELSE tagChildren
       /\ userFeedback' = counters
       /\ cells' =
            [c \in DOMAIN cells |->
               IF \E j \in Inst : /\ c[2] \in DOMAIN counters[j]
                                  /\ counters[j][c[2]] = c[1]
               THEN cells[c] ELSE NoCounter]
       /\ history' = [history EXCEPT ![i] = [NewHistory EXCEPT !.origin = "imported"]]
       /\ call' = [op |-> "import", inst |-> i, threw |-> FALSE,
                   args |-> [data |-> data, from |-> from, intoNew |-> Pristine(i)],
                   result |-> <<>>]
       /\ UNCHANGED <<blacklist, notes, kind, trainingBuffer>>

\* i.import(j.export())
ImportExported(i, j) ==
  /\ i # j
  /\ Import(i, Export(j), j)

(***************************************************************************)
(* Inputs                                                                  *)
(***************************************************************************)
Doc(text, tags) == [text |-> text, tags |-> tags]

\* at most this many documents are trained into one object
MaxDocs == 2
\* at most this many finalizeTraining calls between two resets or imports
MaxRounds == 2
\* at most this many recordFeedback calls per tag
MaxFeedback == 3
\* documents per object where two objects are followed
MaxPairDocs == 2
\* documents in the corpus that is large enough for distinctive words
MaxOverlapDocs == 7
\* finalizeTraining calls on that corpus
MaxOverlapRounds == 1

\* the documents trained; the last one names no tag
Pool ==
  {Doc(TextAaBb, <<TagPython>>),
   Doc(TextCc, <<TagPythonDjango>>),
   Doc(TextAaCc, <<TagPy, TagGo>>),
   Doc(TextCc, <<>>)}

PairPool ==
  {Doc(TextAaBb, <<TagPython>>),
   Doc(TextAaCc, <<TagPythonDjango>>)}

\* one document with words, and documents without any: with seven
\* documents a word of a single document has ln(8/1) > 2.0
OverlapPool ==
  {Doc(TextAaBbCc, <<TagPython>>),
   Doc(TextEmpty, <<TagGo>>)}

Request(text, whitelist, minSimilarity, maxResults, existingTags) ==
  [text |-> text, whitelist |-> whitelist, minSimilarity |-> minSimilarity,
   maxResults |-> maxResults, existingTags |-> existingTags]

\* the default minSimilarity, 0.1, and the default maxResults
DefaultMinSimilarity == FP \div 10
DefaultMaxResults == 5

\* the calls of classify the model makes
Requests ==
  {Request(text, <<>>, DefaultMinSimilarity, DefaultMaxResults, existing) :
     text \in {TextAaBb, TextCc},
     existing \in {<<>>, <<TagPy>>, <<TagPython>>}}
  \cup
  {Request(text, o[1], o[2], o[3], <<>>) :
     text \in {TextAaBb, TextEmpty},
     o \in {<<<<>>, 0, 1>>,
            <<<<>>, 0, DefaultMaxResults>>,
            <<<<TagToString, TagPython>>, 0, DefaultMaxResults>>,
            <<<<TagGo>>, DefaultMinSimilarity, DefaultMaxResults>>}}

UnitVec == [d \in UsedDims |-> IF d = WordDims[<<"a","a">>][1] THEN FP ELSE 0]

\* what import finds under a tag of a parsed snapshot: a proper array,
\* null, an array of three numbers
ProperArray == Array(UnitVec)
NotAnArray == [isArray |-> FALSE, length |-> 0, finite |-> TRUE, at |-> ZeroVec]
ShortArray == [isArray |-> TRUE, length |-> 3, finite |-> TRUE, at |-> ZeroVec]

Snapshot(present, type, value, store) ==
  [present |-> present,
   totalDocs |-> [type |-> type, value |-> value],
   source |-> "literal",
   store |-> store,
   docFrequency |-> (<<"a","a">> :> 1) @@ (<<"b","b">> :> 0),
   tagHierarchy |-> [defined |-> FALSE, value |-> <<>>],
   userFeedback |-> [defined |-> FALSE, value |-> <<>>]]

\* tables in which go has no array and py a short one
MixedStore ==
  [order |-> <<TagPython, TagGo, TagPy, TagPythonDjango>>,
   tagEmbeddings |->
     (TagPython :> ProperArray) @@ (TagGo :> NotAnArray)
       @@ (TagPy :> ShortArray) @@ (TagPythonDjango :> ProperArray),
   tagDocCounts |->
     (TagPython :> 1) @@ (TagGo :> 1) @@ (TagPy :> 2) @@ (TagPythonDjango :> 1),
   tagDistinctiveWords |->
     (TagPython :> << <<"a","a">> >>) @@ (TagGo :> << <<"c","c">> >>)
       @@ (TagPy :> <<>>) @@ (TagPythonDjango :> <<>>)]

\* the snapshots import is called with, besides exports
Snapshots ==
  {Snapshot(FALSE, Undefined, 0, EmptyStore),
   Snapshot(TRUE, Undefined, 0, MixedStore),
   Snapshot(TRUE, "string", 2, MixedStore),
   Snapshot(TRUE, "number", 0 - 1, MixedStore),
   Snapshot(TRUE, "number", 2, MixedStore),
   Snapshot(TRUE, "number", 0, EmptyStore)}

(***************************************************************************)
(* One classifier, of either class: trained, finalized, given feedback,    *)
(* asked to classify.                                                      *)
(***************************************************************************)
Init ==
  \E k \in Kinds : Constructed([i \in Inst |-> IF i = "A" THEN k ELSE Base])

TrainA == \E doc \in Pool : Train("A", doc, MaxDocs)

FinalizeA == FinalizeTraining("A", MaxRounds)

ClassifyA == \E request \in Requests : Classify("A", request)

FeedbackA ==
  \E tag \in FeedbackTags, accepted \in BOOLEAN :
    RecordFeedback("A", tag, accepted, MaxFeedback)

Next == TrainA \/ FinalizeA \/ ClassifyA \/ FeedbackA

Spec == Init /\ [][Next]_vars

(***************************************************************************)
(* One classifier whose state is replaced: import of a parsed snapshot,    *)
(* reset.                                                                  *)
(***************************************************************************)
TrainImport == \E doc \in PairPool : Train("A", doc, MaxPairDocs)

ImportA == \E data \in Snapshots : Import("A", data, "literal")

ResetA == Reset("A")

NextImport == TrainImport \/ FinalizeA \/ FeedbackA \/ ImportA \/ ResetA

SpecImport == Init /\ [][NextImport]_vars

(***************************************************************************)
(* Two classifiers.  A is used first; then B, straight from its            *)
(* constructor, imports what A exports, and B is used.                     *)
(***************************************************************************)
InitPair == \E kinds \in [Inst -> Kinds] : Constructed(kinds)

\* the object in use: A until B has imported, B from then on
InUse(i) == IF Pristine("B") THEN i = "A" ELSE i = "B"

TrainPair ==
  \E i \in Inst, doc \in PairPool : InUse(i) /\ Train(i, doc, MaxPairDocs)

FinalizePair == \E i \in Inst : InUse(i) /\ FinalizeTraining(i, MaxRounds)

FeedbackPair ==
  \E i \in Inst, tag \in FeedbackTags, accepted \in BOOLEAN :
    InUse(i) /\ RecordFeedback(i, tag, accepted, MaxFeedback)

ImportPair == Pristine("B") /\ ImportExported("B", "A")

NextPair == TrainPair \/ FinalizePair \/ FeedbackPair \/ ImportPair

SpecPair == InitPair /\ [][NextPair]_vars

(***************************************************************************)
(* One base classifier on a corpus of up to seven documents.               *)
(***************************************************************************)
InitOverlap == Constructed([i \in Inst |-> Base])

TrainOverlap == \E doc \in OverlapPool : Train("A", doc, MaxOverlapDocs)

FinalizeOverlap == FinalizeTraining("A", MaxOverlapRounds)

NextOverlap == TrainOverlap \/ FinalizeOverlap \/ ClassifyA

SpecOverlap == InitOverlap /\ [][NextOverlap]_vars

(***************************************************************************)
(* One classifier through its whole life: trained, finalized, reset,       *)
(* given a parsed snapshot, asked to classify and for its statistics.      *)
(***************************************************************************)
\* a centroid array of 1024 zeros, and one that holds a NaN
ZeroArray == Array(ZeroVec)
NaNArray == [isArray |-> TRUE, length |-> DIMENSIONS, finite |-> FALSE, at |-> ZeroVec]

\* tables with one tag, under which emb is found
OneTagStore(tag, emb) ==
  [order |-> <<tag>>,
   tagEmbeddings |-> (tag :> emb),
   tagDocCounts |-> (tag :> 1),
   tagDistinctiveWords |-> (tag :> <<>>)]

\* tables in which python has a centroid and go the array emb
TwoTagStore(emb) ==
  [order |-> <<TagPython, TagGo>>,
   tagEmbeddings |-> (TagPython :> ProperArray) @@ (TagGo :> emb),
   tagDocCounts |-> (TagPython :> 1) @@ (TagGo :> 1),
   tagDistinctiveWords |-> (TagPython :> <<>>) @@ (TagGo :> <<>>)]

\* the snapshots this classifier is given
LifeSnapshots ==
  {Snapshot(TRUE, "number", 1, OneTagStore(TagPython, ProperArray)),
   Snapshot(TRUE, "number", 2, TwoTagStore(ZeroArray)),
   Snapshot(TRUE, "number", 2, TwoTagStore(NaNArray))}

\* the calls of classify this classifier gets
LifeRequests ==
  {Request(TextAaBb, <<>>, DefaultMinSimilarity, DefaultMaxResults, <<>>),
   Request(TextAaBb, <<TagPython>>, 0, DefaultMaxResults, <<>>),
   Request(TextCc, <<>>, 0, DefaultMaxResults, <<TagPython>>),
   Request(TextEmpty, <<TagToString, TagPython>>, 0, DefaultMaxResults, <<>>)}

ImportLife == \E data \in LifeSnapshots : Import("A", data, "literal")

ClassifyLife == \E request \in LifeRequests : Classify("A", request)

StatsA == GetStats("A")

NextLife ==
  TrainImport \/ FinalizeA \/ ResetA \/ ImportLife \/ ClassifyLife \/ StatsA

SpecLife == Init /\ [][NextLife]_vars

(***************************************************************************)
(* One advanced classifier: trained, finalized, given feedback, asked to   *)
(* classify texts that match several tags, with and without existing tags. *)
(***************************************************************************)
InitAdvanced ==
  Constructed([i \in Inst |-> IF i = "A" THEN Advanced ELSE Base])

\* the documents the advanced classifier is trained on: a parent tag in
\* lower case and with a capital, and a child tag
AdvancedPool ==
  {Doc(TextAaBb, <<TagPython>>),
   Doc(TextAaBb, <<TagPythonUpper>>),
   Doc(TextCc, <<TagPythonDjango>>)}

\* the calls of classify the advanced classifier gets
AdvancedRequests ==
  {Request(text, <<>>, DefaultMinSimilarity, maxResults, existing) :
     text \in {TextAaCc, TextAaBb},
     maxResults \in {1, DefaultMaxResults},
     existing \in {<<>>, <<TagPython>>, <<TagPythonUpper>>}}

TrainAdvanced == \E doc \in AdvancedPool : Train("A", doc, MaxDocs)

ClassifyAdvanced == \E request \in AdvancedRequests : Classify("A", request)

NextAdvanced == TrainAdvanced \/ FinalizeA \/ FeedbackA \/ ClassifyAdvanced

SpecAdvanced == InitAdvanced /\ [][NextAdvanced]_vars

(***************************************************************************)
(* The plugin.  One enabled collection over every folder, without a        *)
(* whitelist and with the default threshold and maxTags; its classifier,   *)
(* an EmbeddingClassifier, is A.                                           *)
(***************************************************************************)
InitPlugin == Constructed([i \in Inst |-> Base])

\* collection.threshold, 0.3, and collection.maxTags
CollectionThreshold == (3 * FP) \div 10
CollectionMaxTags == 5

\* what is typed into the blacklist field, split at the commas
BlacklistValues ==
  {<<>>,
   <<TagPythonUpper>>,
   <<<<" ">> \o TagPythonDjango>>,
   <<TagPythonUpper, <<" ">>, TagPythonDjango>>}

\* the tags of a frontmatter in lower case, those on the blacklist left out
getTagsFromFrontmatter(tags, bl) ==
  SelectSeq([k \in DOMAIN tags |-> toLowerCase(tags[k])],
            LAMBDA tag : tag \notin Range(bl))

RECURSIVE TaggedNotes(_, _, _)
\* the documents trainCollection trains on: of the first n notes, those
\* that have tags left
TaggedNotes(vault, bl, n) ==
  IF n = 0 THEN <<>>
  ELSE LET tags == getTagsFromFrontmatter(vault[n].tags, bl)
           rest == TaggedNotes(vault, bl, n - 1)
       IN IF Len(tags) > 0 THEN Append(rest, Doc(vault[n].content, tags))
          ELSE rest

RECURSIVE CountAll(_, _)
\* docFrequency after train on each of the documents
CountAll(df, docs) ==
  IF docs = <<>> THEN df
  ELSE CountWords(CountAll(df, SubSeq(docs, 1, Len(docs) - 1)),
                  Unique(TokensOf[docs[Len(docs)].text]))

\* a new classifier that was trained on the documents, which gave it the
\* docFrequency df, and finalized takes the place of A
Replaced(docs, df) ==
  /\ tables' = [tables EXCEPT !["A"] = FreshStore("A")]
  /\ totalDocs' = [totalDocs EXCEPT !["A"] = Len(docs)]
  /\ docFrequency' = [docFrequency EXCEPT !["A"] = df]
  /\ heap' =
       [heap EXCEPT
          ![FreshStore("A")] = FinalizedStore(EmptyStore, docs, df, Len(docs))]
  /\ trainingBuffer' = [trainingBuffer EXCEPT !["A"] = <<>>]
  /\ history' =
       [history EXCEPT
          !["A"] = [origin |-> "new", trained |-> docs, rounds |-> 1,
                    raw |-> AccumulateBuffer(EmptyStore, docs, df, Len(docs))]]
  /\ call' = Returned("trainCollection", "A", <<>>)
  /\ UNCHANGED <<blacklist, notes, kind, tagHierarchy, tagChildren,
                 userFeedback, cells>>

TrainedOn(docs) == Replaced(docs, CountAll(<<>>, docs))

\* trainCollection: the collection's classifier is replaced by a new one,
\* trained on the tagged notes and finalized
TrainCollection == TrainedOn(TaggedNotes(notes, blacklist, Len(notes)))

\* the blacklist field of the settings tab is changed
EditBlacklist(value) ==
  /\ blacklist' =
       SelectSeq([k \in DOMAIN value |-> toLowerCase(trim(value[k]))],
                 LAMBDA t : Len(t) > 0)
  /\ call' = Returned("blacklist", "A", <<>>)
  /\ UNCHANGED <<notes, kind, history>>
  /\ UNCHANGED fields

\* getSuggestions(file) with the one collection: the suggestions of its
\* classifier c for the note, highest probability first
TagsSeq(suggestions) == [k \in DOMAIN suggestions |-> suggestions[k].tag]

\* the suggestions sorted, highest probability first
ByProbability(suggestions) ==
  SortDescBy(suggestions,
             [k \in DOMAIN suggestions |-> suggestions[k].probability])

getSuggestions(c, note, bl) ==
  IF c.totalDocs = 0 THEN <<>>
  ELSE ByProbability(classify(c, note.content, <<>>, CollectionThreshold,
                              CollectionMaxTags,
                              getTagsFromFrontmatter(note.tags, bl)))

GetSuggestions(n) ==
  /\ call' = [op |-> "getSuggestions", inst |-> "A", threw |-> FALSE,
              args |-> [file |-> n],
              result |-> getSuggestions(Instance("A"), notes[n], blacklist)]
  /\ UNCHANGED <<blacklist, notes, kind, history>>
  /\ UNCHANGED fields

\* the tags applyTags writes into a frontmatter that has the given tags
applyTags(tags, newTags, mode, bl) ==
  IF mode = "overwrite" THEN Unique(newTags)
  ELSE Unique(SelectSeq([k \in DOMAIN tags |-> toLowerCase(tags[k])],
                        LAMBDA tag : tag \notin Range(bl)) \o newTags)

\* autoTagFile(file): the suggested tags, if any, are written in integrate
\* mode; the outcome recorded is the tags written
Tagged(n, suggested) ==
  /\ notes' =
       IF Len(suggested) > 0
       THEN [notes EXCEPT
               ![n].tags = applyTags(@, suggested, "integrate", blacklist)]
       ELSE notes
  /\ call' = [op |-> "autoTagFile", inst |-> "A", threw |-> FALSE,
              args |-> [file |-> n],
              result |-> IF Len(suggested) > 0 THEN notes'[n].tags ELSE <<>>]
  /\ UNCHANGED <<blacklist, kind, history>>
  /\ UNCHANGED fields

AutoTagFile(n) ==
  Tagged(n, TagsSeq(getSuggestions(Instance("A"), notes[n], blacklist)))

TrainCollectionA == TrainCollection

EditBlacklistA == \E value \in BlacklistValues : EditBlacklist(value)

GetSuggestionsA == \E n \in SuggestedNotes : GetSuggestions(n)

AutoTagFileA == \E n \in AutoTaggedNotes : AutoTagFile(n)

NextPlugin == TrainCollectionA \/ EditBlacklistA \/ GetSuggestionsA \/ AutoTagFileA

SpecPlugin == InitPlugin /\ [][NextPlugin]_vars

(***************************************************************************)
(* One base classifier trained in rounds: train ... finalizeTraining,      *)
(* train ... finalizeTraining, without a reset in between.                 *)
(***************************************************************************)
\* documents trained in all rounds together
MaxRoundDocs == 3

RoundPool ==
  {Doc(TextAaBb, <<TagPython>>),
   Doc(TextEmpty, <<TagGo>>),
   Doc(TextCc, <<TagPython>>)}

TrainRound == \E doc \in RoundPool : Train("A", doc, MaxRoundDocs)

FinalizeRound == FinalizeTraining("A", MaxRounds)

NextRounds == TrainRound \/ FinalizeRound

SpecRounds == InitPlugin /\ [][NextRounds]_vars

(***************************************************************************)
(* One classifier that is trained, finalized, reset and given parsed       *)
(* snapshots whose tagDocCounts do and do not cover their tagEmbeddings.   *)
(***************************************************************************)
\* the snapshots: python with a centroid and a count of 1, with a count
\* of 0, and without a count
CountSnapshots ==
  {Snapshot(TRUE, "number", 1, OneTagStore(TagPython, ProperArray)),
   Snapshot(TRUE, "number", 1,
            [OneTagStore(TagPython, ProperArray) EXCEPT
               !.tagDocCounts = (TagPython :> 0)]),
   Snapshot(TRUE, "number", 1,
            [OneTagStore(TagPython, ProperArray) EXCEPT !.tagDocCounts = <<>>])}

ImportCounts == \E data \in CountSnapshots : Import("A", data, "literal")

NextCounts == TrainImport \/ FinalizeA \/ ResetA \/ ImportCounts

SpecCounts == InitPlugin /\ [][NextCounts]_vars

(***************************************************************************)
(* One base classifier trained with tag lists of several shapes: a tag     *)
(* named twice, two tags, one tag.                                         *)
(***************************************************************************)
TagListPool ==
  {Doc(TextAaBb, <<TagPython, TagPython>>),
   Doc(TextCc, <<TagPython, TagGo>>),
   Doc(TextCc, <<TagGo>>)}

TrainTagLists == \E doc \in TagListPool : Train("A", doc, MaxDocs)

NextTagLists == TrainTagLists \/ FinalizeA \/ ResetA

SpecTagLists == InitPlugin /\ [][NextTagLists]_vars

(***************************************************************************)
(* One base classifier on a corpus of up to seven documents in which a     *)
(* tag has two distinctive words, asked about texts that have both of      *)
(* them and one of them.                                                   *)
(***************************************************************************)
BorderlinePool ==
  {Doc(TextAaBb, <<TagPython>>),
   Doc(TextEmpty, <<TagGo>>)}

\* minSimilarity 0.1 and 0.4
BorderlineRequests ==
  {Request(text, <<>>, minSimilarity, DefaultMaxResults, <<>>) :
     text \in {TextAaBb, TextAaCc},
     minSimilarity \in {DefaultMinSimilarity, 4 * DefaultMinSimilarity}}

TrainBorderline == \E doc \in BorderlinePool : Train("A", doc, MaxOverlapDocs)

ClassifyBorderline == \E request \in BorderlineRequests : Classify("A", request)

NextBorderline == TrainBorderline \/ FinalizeOverlap \/ ClassifyBorderline

SpecBorderline == InitOverlap /\ [][NextBorderline]_vars

(***************************************************************************)
(* The same corpus, finalized more than once.                              *)
(***************************************************************************)
NextRefinalize == TrainBorderline \/ FinalizeA

SpecRefinalize == InitOverlap /\ [][NextRefinalize]_vars

(***************************************************************************)
(* The plugin with autoTagOnSave: vault.modify raises a 'modify' event,    *)
(* whose handler starts autoTagFile for the file and does not wait for it. *)
(***************************************************************************)
\* a 'modify' event for a note is raised and not yet handled: the note was
\* saved, or autoTagFile has written it
ModifyRaised ==
  \/ call.op = "save"
  \/ call.op = "autoTagFile" /\ call.result # <<>>

\* the chain a save started is still going on
ChainActive == ModifyRaised \/ call.op = "modify"

\* the user saves a note
Save(n) ==
  /\ ~ChainActive
  /\ call' = [op |-> "save", inst |-> "A", threw |-> FALSE,
              args |-> [file |-> n], result |-> <<>>]
  /\ UNCHANGED <<blacklist, notes, kind, history>>
  /\ UNCHANGED fields

\* the handler of 'modify' gets the event and calls autoTagFile(file)
OnModify ==
  /\ ModifyRaised
  /\ call' = [op |-> "modify", inst |-> "A", threw |-> FALSE,
              args |-> [file |-> call.args.file], result |-> <<>>]
  /\ UNCHANGED <<blacklist, notes, kind, history>>
  /\ UNCHANGED fields

\* the autoTagFile the handler started runs
AutoTagOnSave == call.op = "modify" /\ AutoTagFile(call.args.file)

SaveA == \E n \in SuggestedNotes : Save(n)

TrainCollectionIdle == ~ChainActive /\ TrainCollection

EditBlacklistIdle ==
  ~ChainActive /\ \E value \in BlacklistValues : EditBlacklist(value)

NextOnSave ==
  TrainCollectionIdle \/ EditBlacklistIdle \/ SaveA \/ OnModify \/ AutoTagOnSave

SpecOnSave == InitPlugin /\ [][NextOnSave]_vars

(***************************************************************************)
(* One advanced classifier asked to classify with the lowest and the       *)
(* highest similarity threshold of the settings tab, 0.1 and 0.7.          *)
(***************************************************************************)
ThresholdRequests ==
  {Request(text, <<>>, minSimilarity, DefaultMaxResults, <<>>) :
     text \in {TextAaCc, TextAaBb},
     minSimilarity \in {DefaultMinSimilarity, 7 * DefaultMinSimilarity}}

ClassifyThreshold == \E request \in ThresholdRequests : Classify("A", request)

NextThreshold == TrainAdvanced \/ FinalizeA \/ ClassifyThreshold

SpecThreshold == InitAdvanced /\ [][NextThreshold]_vars

(***************************************************************************)
(* Two base classifiers given the same documents: the first in any order,  *)
(* then, once it is finalized, the second in any order of its own.         *)
(***************************************************************************)
MaxPermDocs == 4

PermPool ==
  {Doc(TextAaBb, <<TagPython>>), Doc(TextAaBb, <<TagGo>>),
   Doc(TextEmpty, <<TagPy>>)}

\* how many times doc was trained into i
TimesTrained(i, doc) ==
  Cardinality({k \in DOMAIN history[i].trained : history[i].trained[k] = doc})

TrainFirst ==
  /\ history["A"].rounds = 0
  /\ \E doc \in PermPool : Train("A", doc, MaxPermDocs)

TrainSecond ==
  /\ history["A"].rounds = 1
  /\ history["B"].rounds = 0
  /\ \E doc \in PermPool :
       /\ TimesTrained("B", doc) < TimesTrained("A", doc)
       /\ Train("B", doc, MaxPermDocs)

FinalizeFirst == FinalizeTraining("A", 1)

FinalizeSecond ==
  /\ Len(history["B"].trained) = Len(history["A"].trained)
  /\ history["A"].rounds = 1
  /\ FinalizeTraining("B", 1)

PermRequests ==
  {Request(text, <<>>, DefaultMinSimilarity, maxResults, <<>>) :
     text \in {TextAaBb, TextCc}, maxResults \in {1, DefaultMaxResults}}

NextPerm == TrainFirst \/ TrainSecond \/ FinalizeFirst \/ FinalizeSecond

SpecPerm == InitPlugin /\ [][NextPerm]_vars

(***************************************************************************)
(* A classifier of either class asked with whitelists as the settings tab  *)
(* builds them: the comma-separated entries, trimmed and lowercased,       *)
(* repeated ones kept.                                                     *)
(***************************************************************************)
WhitelistRequests ==
  {Request(text, whitelist, DefaultMinSimilarity, maxResults, <<>>) :
     text \in {TextAaBb, TextCc},
     whitelist \in {<<>>, <<TagPython>>, <<TagPython, TagPython>>,
                    <<TagGo, TagPython>>},
     maxResults \in {1, DefaultMaxResults}}

ClassifyWhitelist == \E request \in WhitelistRequests : Classify("A", request)

NextWhitelist == TrainA \/ FinalizeA \/ ClassifyWhitelist

SpecWhitelist == Init /\ [][NextWhitelist]_vars

(***************************************************************************)
(* A classifier of either class is trained, finalized and reset.           *)
(***************************************************************************)
\* getAdvancedStats().hierarchyRelations and .feedbackRecords
getAdvancedStats(c) ==
  [hierarchyRelations |->
     SumOver([k \in DOMAIN c.tagHierarchy |-> Len(c.tagHierarchy[k].values)],
             DOMAIN c.tagHierarchy),
   feedbackRecords |-> Cardinality(DOMAIN c.userFeedback)]

NextReset == TrainAdvanced \/ FinalizeA \/ ResetA

SpecReset == Init /\ [][NextReset]_vars

(***************************************************************************)
(* Properties                                                              *)
(***************************************************************************)
\* the last call was classify on an object of class k
ClassifyReturned(k) == call.op = "classify" /\ kind[call.inst] = k

\* the call passed classify's default arguments after the text
DefaultArguments(request) ==
  /\ request.whitelist = <<>>
  /\ request.minSimilarity = DefaultMinSimilarity
  /\ request.maxResults = DefaultMaxResults
  /\ request.existingTags = <<>>

\* the tags of a returned list
TagsOf(result) == {result[k].tag : k \in DOMAIN result}

\* a tag's normalized form as the synonym rule describes it: lower case,
\* spaces, underscores and dashes removed, then looked up in the table
Canonical(tag) ==
  LET plain == RemoveSeparators(toLowerCase(tag))
      entries == {e \in synonymMap : e[1] = plain}
  IN IF entries = {} THEN plain ELSE (CHOOSE e \in entries : TRUE)[2]

\* the object was constructed, trained on exactly one document with one tag
\* and finalized once, in this order
TrainedOnOneDocument(i) ==
  /\ history[i].origin = "new"
  /\ Len(history[i].trained) = 1
  /\ Len(history[i].trained[1].tags) = 1
  /\ history[i].rounds = 1
  /\ trainingBuffer[i] = <<>>

(* C1: a base classifier trained on one document with one tag and then     *)
(* finalized, asked to classify that document's text (which has a token)   *)
(* with default arguments, returns the tag with probability above 0.9.     *)
C1_SingleDocumentIsRecognized ==
  ( /\ ClassifyReturned(Base)
    /\ TrainedOnOneDocument(call.inst)
    /\ call.args.text = history[call.inst].trained[1].text
    /\ TokensOf[call.args.text] # <<>>
    /\ DefaultArguments(call.args) )
  => \E k \in DOMAIN call.result :
       /\ call.result[k].tag = history[call.inst].trained[1].tags[1]
       /\ call.result[k].probability > 9 * (FP \div 10)

(* C2: the base classifier never returns a tag whose normalized form is    *)
(* the normalized form of an entry of existingTags.                        *)
C2_BaseSuppressesSynonyms ==
  ClassifyReturned(Base)
  => \A t \in TagsOf(call.result), e \in Range(call.args.existingTags) :
       Canonical(t) # Canonical(e)

\* classify was called on a base classifier with "py" as an existing tag, in
\* a state where the same call without existing tags returns "python"
C2_Witness ==
  /\ ClassifyReturned(Base)
  /\ call.args.existingTags = <<TagPy>>
  /\ TagPython \in
       TagsOf(Classified(Instance(call.inst),
                         [call.args EXCEPT !.existingTags = <<>>]))

(* C3: the advanced classifier never returns a tag t when existingTags     *)
(* holds a synonym of t under the synonym table.                           *)
C3_AdvancedSuppressesSynonyms ==
  ClassifyReturned(Advanced)
  => \A t \in TagsOf(call.result), e \in Range(call.args.existingTags) :
       ~(Canonical(t) = Canonical(e))

\* the fraction of a tag's distinctive words that occur in the text, in
\* percent, rounded down
OverlapPercent(store, tag, text) ==
  LET words == store.tagDistinctiveWords[tag]
  IN (Cardinality({k \in DOMAIN words : words[k] \in Range(TokensOf[text])}) * 100)
       \div Len(words)

\* the tags with an empty distinctive-word list or none
WithoutDistinctiveWords(store) ==
  {t \in Range(store.order) : DistinctiveWordsOf(store, t) = <<>>}

(* C4: every tag the base classifier returns that has distinctive words    *)
(* has at least 40% of them in the document; a tag without distinctive     *)
(* words counts as overlap 1.0: it is returned whenever its similarity     *)
(* reaches minSimilarity and the list has room.                            *)
C4_OverlapFloor ==
  ClassifyReturned(Base)
  => LET store == heap[tables[call.inst]]
         c == Instance(call.inst)
         embedding ==
           generateEmbedding(c.docFrequency, c.totalDocs, call.args.text, TRUE)
     IN /\ \A t \in TagsOf(call.result) :
             DistinctiveWordsOf(store, t) # <<>>
               => OverlapPercent(store, t, call.args.text) >= 40
        /\ ( /\ call.args.whitelist = <<>>
             /\ call.args.existingTags = <<>>
             /\ Len(call.result) < call.args.maxResults )
           => \A t \in WithoutDistinctiveWords(store) :
                GEq(cosineSimilarity(embedding, store.tagEmbeddings[t]),
                    call.args.minSimilarity)
                  => t \in TagsOf(call.result)

\* the base classifier returned a tag that has distinctive words, and one
\* that has none
C4_Witness ==
  /\ ClassifyReturned(Base)
  /\ \E t \in TagsOf(call.result) :
       DistinctiveWordsOf(heap[tables[call.inst]], t) # <<>>
  /\ \E t \in TagsOf(call.result) :
       DistinctiveWordsOf(heap[tables[call.inst]], t) = <<>>

\* the last call was a successful import of j's export into a new object
\* of j's class
ImportedIntoNew(i, j) ==
  /\ call.op = "import"
  /\ call.inst = i
  /\ ~call.threw
  /\ call.args.from = j
  /\ call.args.intoNew
  /\ kind[i] = kind[j]

(* C5: a new object of the same class that imported the original's export  *)
(* returns from classify the list the original returns, for every call.    *)
C5_RoundTrip ==
  ImportedIntoNew("B", "A")
  => \A request \in Requests :
       Classified(Instance("B"), request) = Classified(Instance("A"), request)

\* an advanced classifier with enough feedback to adjust probabilities was
\* exported and imported, and some call returns tags from both
C5_Witness ==
  /\ ImportedIntoNew("B", "A")
  /\ kind["A"] = Advanced
  /\ \E t \in DOMAIN Instance("A").userFeedback :
       Instance("A").userFeedback[t].accepted >= MIN_FEEDBACK
  /\ \E request \in Requests :
       /\ Classified(Instance("A"), request) # <<>>
       /\ Classified(Instance("B"), request) # <<>>

\* what of an object another object's operations must leave alone: its
\* centroids, document counts, distinctive words and feedback counters
\* (what classify returns is computed from these and from the object's own
\* totalDocs and docFrequency)
Observed(i) ==
  [tagEmbeddings |-> heap[tables[i]].tagEmbeddings,
   tagDocCounts |-> heap[tables[i]].tagDocCounts,
   tagDistinctiveWords |-> heap[tables[i]].tagDistinctiveWords,
   userFeedback |->
     [t \in DOMAIN userFeedback[i] |-> cells[<<userFeedback[i][t], t>>]]]

(* C6: no operation on one object changes the other object's centroids,    *)
(* document counts, distinctive words or feedback counters, also when one   *)
(* object was populated by importing the other's export.                    *)
C6_InstancesAreIndependent ==
  [][\A i \in Inst : call'.inst # i => Observed(i)' = Observed(i)]_vars

\* the snapshot is missing, or its totalDocs is missing, no number or negative
NotASnapshot(data) ==
  \/ ~data.present
  \/ data.totalDocs.type = Undefined
  \/ data.totalDocs.type # "number"
  \/ data.totalDocs.value < 0

(* C7: import of a missing snapshot, or of one whose totalDocs is missing,  *)
(* not a number or negative, raises an error and changes no field.          *)
C7_RejectedImportChangesNothing ==
  [][(call'.op = "import" /\ NotASnapshot(call'.args.data))
       => (call'.threw /\ fields' = fields)]_vars

\* an import was rejected on a classifier that holds centroids and documents
C7_Witness ==
  /\ call.op = "import"
  /\ call.threw
  /\ call.args.data.present
  /\ heap[tables[call.inst]].order # <<>>
  /\ totalDocs[call.inst] > 0
  /\ trainingBuffer[call.inst] # <<>>

\* the tags of a snapshot's tables whose embedding is no array or has not
\* 1024 entries
Malformed(tablesOf) ==
  {t \in Range(tablesOf.order) :
     ~tablesOf.tagEmbeddings[t].isArray \/ tablesOf.tagEmbeddings[t].length # 1024}

(* C8: import of a snapshot with valid totalDocs does not fail; afterwards  *)
(* a tag whose embedding is no array or not of length 1024 has no          *)
(* centroid, no document count and no distinctive words, and every other   *)
(* tag has those of the snapshot.                                          *)
C8_MalformedEmbeddingsAreDropped ==
  ( /\ call.op = "import"
    /\ call.args.from = "literal"
    /\ ~NotASnapshot(call.args.data) )
  => LET given == call.args.data.store
         store == heap[tables[call.inst]]
     IN /\ ~call.threw
        /\ \A t \in Malformed(given) :
             /\ t \notin DOMAIN store.tagEmbeddings
             /\ t \notin DOMAIN store.tagDocCounts
             /\ t \notin DOMAIN store.tagDistinctiveWords
        /\ \A t \in Range(given.order) \ Malformed(given) :
             /\ t \in DOMAIN store.tagEmbeddings
             /\ store.tagEmbeddings[t] = given.tagEmbeddings[t]
             /\ store.tagDocCounts[t] = given.tagDocCounts[t]
             /\ store.tagDistinctiveWords[t] = given.tagDistinctiveWords[t]

\* a snapshot with malformed and well-formed embeddings was imported
C8_Witness ==
  /\ call.op = "import"
  /\ ~call.threw
  /\ call.args.from = "literal"
  /\ Malformed(call.args.data.store) # {}
  /\ Range(call.args.data.store.order) \ Malformed(call.args.data.store) # {}

(* C9: called with minSimilarity in [0,1], classify of either class         *)
(* returns probabilities in [0,1] only.                                     *)
C9_ProbabilitiesInUnitInterval ==
  ( /\ call.op = "classify"
    /\ call.args.minSimilarity >= 0
    /\ call.args.minSimilarity <= FP )
  => \A k \in DOMAIN call.result :
       /\ call.result[k].probability >= 0
       /\ call.result[k].probability <= FP

(* C10: every tag classify returns has a centroid; with a non-empty         *)
(* whitelist every returned tag is in the whitelist; a non-empty whitelist  *)
(* that shares no tag with the known tags yields the empty list.            *)
C10_ReturnedTagsAreKnownAndWhitelisted ==
  call.op = "classify"
  => LET known == DOMAIN heap[tables[call.inst]].tagEmbeddings
         whitelist == Range(call.args.whitelist)
     IN /\ TagsOf(call.result) \subseteq known
        /\ whitelist # {} => TagsOf(call.result) \subseteq whitelist
        /\ (whitelist # {} /\ whitelist \cap known = {}) => call.result = <<>>

\* the object is as its constructor or reset() left it, but for train()
\* calls: no finalizeTraining() and no import() since
NeverFinalized(i) ==
  /\ history[i].origin \in {"new", "reset"}
  /\ history[i].rounds = 0

(* C11: a classifier that was constructed or reset and since then only      *)
(* trained returns [] from classify without raising, for every input; if    *)
(* it was not trained either, getStats() reports totalDocs = 0 and          *)
(* totalTags = 0.                                                           *)
C11_NothingBeforeFinalization ==
  NeverFinalized(call.inst)
  => /\ call.op = "classify" => (~call.threw /\ call.result = <<>>)
     /\ (call.op = "getStats" /\ history[call.inst].trained = <<>>)
          => call.result = [totalDocs |-> 0, totalTags |-> 0]

\* classify was called on an advanced classifier that was finalized (it has
\* a tag hierarchy), then reset, and has been trained since
C11_Witness ==
  /\ call.op = "classify"
  /\ history[call.inst].origin = "reset"
  /\ history[call.inst].rounds = 0
  /\ trainingBuffer[call.inst] # <<>>
  /\ tagHierarchy[call.inst] # <<>>

(* C12: a classify call, base or advanced, leaves every field of the       *)
(* classifier as it was (centroids, document counts, totalDocs,             *)
(* docFrequency, distinctive words, training buffer, tag hierarchy,         *)
(* feedback counters), and a call that repeats the previous call's          *)
(* arguments on the same object returns the same list.                      *)
C12_ClassifyChangesNothing ==
  [][call'.op = "classify"
       => /\ fields' = fields
          /\ ( /\ call.op = "classify"
               /\ call.inst = call'.inst
               /\ call.args = call'.args )
             => call'.result = call.result]_vars

\* an advanced classifier with a tag hierarchy and feedback was asked to
\* classify and returned tags
C12_Witness ==
  /\ ClassifyReturned(Advanced)
  /\ call.result # <<>>
  /\ tagHierarchy[call.inst] # <<>>
  /\ DOMAIN userFeedback[call.inst] # {}

(* C13: the list the advanced classifier returns is in non-increasing       *)
(* order of the probabilities it returns, whatever feedback was recorded    *)
(* (the order in which the claim's "maxResults entries with the highest     *)
(* adjusted probability" are cut off).                                      *)
C13_ReturnedListIsSorted ==
  ClassifyReturned(Advanced)
  => \A j, k \in DOMAIN call.result :
       j < k => call.result[j].probability >= call.result[k].probability

\* the children the tag hierarchy of object i records for tag p
ChildrenOf(i, p) ==
  IF MapHas(tagChildren[i], toLowerCase(p))
  THEN Range(MapGet(tagChildren[i], toLowerCase(p)))
  ELSE {}

(* C14: when the advanced classifier ranks candidates (it holds centroids,  *)
(* none of them corrupted) and the returned list has room, every child of   *)
(* an existing tag that is not itself an existing tag and has a centroid    *)
(* is in the returned list: boosted if it was a candidate, added with       *)
(* probability 0.15 if it was not.                                          *)
C14_ChildrenOfExistingTagsAreSuggested ==
  ( /\ ClassifyReturned(Advanced)
    /\ heap[tables[call.inst]].order # <<>>
    /\ ~HasCorrupted(heap[tables[call.inst]])
    /\ Len(call.result) < call.args.maxResults )
  => \A p \in Range(call.args.existingTags) :
       \A child \in ChildrenOf(call.inst, p) :
         ( /\ child \notin {toLowerCase(e) : e \in Range(call.args.existingTags)}
           /\ child \in DOMAIN heap[tables[call.inst]].tagEmbeddings )
         => \E k \in DOMAIN call.result :
              toLowerCase(call.result[k].tag) = child

\* the probability a returned list gives for a tag it holds
ProbabilityOf(result, tag) ==
  result[CHOOSE k \in DOMAIN result : result[k].tag = tag].probability

C16_BlacklistedTagsAreNeitherSuggestedNorWritten ==
  /\ call.op = "getSuggestions"
       => \A k \in DOMAIN call.result :
            call.result[k].tag \notin Range(blacklist)
  /\ call.op = "autoTagFile"
       => \A k \in DOMAIN call.result : call.result[k] \notin Range(blacklist)


(***************************************************************************)
(* C17.  Advanced classify: if any centroid the classifier holds, whether  *)
(* or not the whitelist makes it a candidate, has a value that is not      *)
(* finite or is all zeros, the call returns [] and does not throw.         *)
(***************************************************************************)
\* the tags whose centroid is not finite or has magnitude zero
CorruptedTags(store) ==
  {t \in DOMAIN store.tagEmbeddings :
     \/ ~store.tagEmbeddings[t].finite
     \/ \A d \in DOMAIN store.tagEmbeddings[t].at :
          store.tagEmbeddings[t].at[d] = 0}

C17_CorruptedCentroidGivesNoSuggestions ==
  ( /\ ClassifyReturned(Advanced)
    /\ CorruptedTags(heap[tables[call.inst]]) # {} )
    => /\ call.result = <<>>
       /\ ~call.threw

\* python has a proper centroid and is the only tag of the whitelist, go
\* has a corrupted one, and the text is one that python matches
C17_Witness ==
  /\ ClassifyReturned(Advanced)
  /\ CorruptedTags(heap[tables[call.inst]]) = {TagGo}
  /\ call.args.whitelist = <<TagPython>>
  /\ call.args.text = TextAaBb
  /\ call.result = <<>>


(***************************************************************************)
(* C18.  After finalizeTraining() on a corpus fed through train(), also    *)
(* one with documents that have no tokens, every centroid has finite       *)
(* components only and is all zeros or has L2 norm 1 (here: within 1% of   *)
(* the fixed point's unit).                                                *)
(***************************************************************************)
AllZero(v) == \A d \in DOMAIN v : v[d] = 0

HasUnitNorm(v) ==
  /\ SumSquares(v) * 100 >= FP * FP * 98
  /\ SumSquares(v) * 100 <= FP * FP * 102

C18_CentroidsAreFiniteAndZeroOrUnit ==
  call.op = "finalizeTraining"
    => \A t \in DOMAIN heap[tables[call.inst]].tagEmbeddings :
         LET emb == heap[tables[call.inst]].tagEmbeddings[t]
         IN /\ emb.finite
            /\ AllZero(emb.at) \/ HasUnitNorm(emb.at)

\* a finalized corpus in which go has documents without tokens only, and
\* python a document with words
C18_Witness ==
  /\ call.op = "finalizeTraining"
  /\ \E k \in DOMAIN history["A"].trained :
       /\ history["A"].trained[k].text = TextEmpty
       /\ history["A"].trained[k].tags = <<TagGo>>
  /\ HasEmbedding(heap[tables["A"]], TagGo)
  /\ AllZero(heap[tables["A"]].tagEmbeddings[TagGo].at)
  /\ HasEmbedding(heap[tables["A"]], TagPython)
  /\ HasUnitNorm(heap[tables["A"]].tagEmbeddings[TagPython].at)


(***************************************************************************)
(* C19.  After any train ... finalizeTraining rounds on one object, each   *)
(* tag's centroid is the normalized average of the raw embeddings of all   *)
(* the documents trained with the tag: of the raw embeddings as            *)
(* finalizeTraining generated them, or of those the documents have with    *)
(* the statistics of the corpus as it is now (each component within 2% of  *)
(* the unit).                                                              *)
(***************************************************************************)
Close(a, b) ==
  \A d \in DOMAIN a : (a[d] - b[d]) * 50 <= FP /\ (b[d] - a[d]) * 50 <= FP

\* the normalized averages of the raw embeddings as they were generated
AveragesAsGenerated(i) == AverageAll(history[i].raw).tagEmbeddings

\* the normalized averages of the raw embeddings under today's statistics
AveragesNow(i) ==
  AverageAll(AccumulateBuffer(EmptyStore, history[i].trained, docFrequency[i],
                              totalDocs[i])).tagEmbeddings

C19_CentroidIsNormalizedAverage ==
  call.op = "finalizeTraining"
    => \A t \in DOMAIN heap[tables[call.inst]].tagEmbeddings :
         \/ Close(heap[tables[call.inst]].tagEmbeddings[t].at,
                  AveragesAsGenerated(call.inst)[t].at)
         \/ Close(heap[tables[call.inst]].tagEmbeddings[t].at,
                  AveragesNow(call.inst)[t].at)


(***************************************************************************)
(* C20.  In every state reached by train, finalizeTraining, reset and the  *)
(* import of a snapshot that import accepts, every tag with a centroid     *)
(* has a recorded document count of at least 1.                            *)
(***************************************************************************)
C20_EveryCentroidHasACount ==
  \A i \in Inst :
    \A t \in DOMAIN heap[tables[i]].tagEmbeddings :
      /\ t \in DOMAIN heap[tables[i]].tagDocCounts
      /\ GEq(heap[tables[i]].tagDocCounts[t], 1)


(***************************************************************************)
(* C21.  After finalizeTraining(), getTagDocCount(tag) is the number of    *)
(* documents trained since construction or reset whose tag list contains   *)
(* the tag, whatever the tag lists were; so it is at most totalDocs.       *)
(***************************************************************************)
\* the documents trained into i since construction or reset that carry tag
DocumentsWith(i, tag) ==
  {k \in DOMAIN history[i].trained : tag \in Range(history[i].trained[k].tags)}

C21_TagDocCountCountsDocuments ==
  call.op = "finalizeTraining"
    => \A tag \in {TagPython, TagGo} :
         /\ getTagDocCount(Instance(call.inst), tag)
              = Cardinality(DocumentsWith(call.inst, tag))
         /\ getTagDocCount(Instance(call.inst), tag)
              <= getStats(Instance(call.inst)).totalDocs


(***************************************************************************)
(* C22.  Base classify: every returned tag has a cosine similarity of at   *)
(* least minSimilarity; a returned tag of whose distinctive words 40% to   *)
(* under 60% occur in the text has one of at least minSimilarity + 0.25;   *)
(* and the probability reported is the cosine similarity.                  *)
(***************************************************************************)
\* the cosine similarity of the text of the last call and the tag's centroid
SimilarityOf(t) ==
  cosineSimilarity(
    generateEmbedding(docFrequency[call.inst], totalDocs[call.inst],
                      call.args.text, TRUE),
    EmbeddingOf(heap[tables[call.inst]], t))

\* 40% to under 60% of the tag's distinctive words occur in the text
Borderline(t) ==
  /\ DistinctiveWordsOf(heap[tables[call.inst]], t) # <<>>
  /\ OverlapPercent(heap[tables[call.inst]], t, call.args.text) >= 40
  /\ OverlapPercent(heap[tables[call.inst]], t, call.args.text) < 60

C22_ReturnedTagsMeetTheSimilarityFloor ==
  ClassifyReturned(Base)
    => \A k \in DOMAIN call.result :
         /\ call.result[k].probability = SimilarityOf(call.result[k].tag)
         /\ GEq(call.result[k].probability, call.args.minSimilarity)
         /\ Borderline(call.result[k].tag)
              => GEq(call.result[k].probability,
                     call.args.minSimilarity + FP \div 4)

\* a tag with a borderline overlap was returned, and what is reported for
\* it is not 0.7 * overlap + 0.3 * similarity
C22_Witness ==
  /\ ClassifyReturned(Base)
  /\ \E k \in DOMAIN call.result :
       /\ Borderline(call.result[k].tag)
       /\ call.result[k].probability * 10
            # 7 * 10 * OverlapPercent(heap[tables[call.inst]],
                                      call.result[k].tag, call.args.text)
                + 3 * SimilarityOf(call.result[k].tag)


(***************************************************************************)
(* C23.  A finalizeTraining() whose buffer holds no document that carries  *)
(* a tag leaves the distinctive words that an earlier finalizeTraining()   *)
(* built for the tag, and the tag's centroid, as they are.                 *)
(***************************************************************************)
\* no buffered document of A carries the tag
NotBuffered(tag) ==
  \A k \in DOMAIN trainingBuffer["A"] : tag \notin Range(trainingBuffer["A"][k].tags)

C23_DistinctiveWordsSurviveRefinalization ==
  [][\A tag \in {TagPython, TagGo} :
       ( /\ call'.op = "finalizeTraining"
         /\ history["A"].rounds >= 1
         /\ HasEmbedding(heap[tables["A"]], tag)
         /\ NotBuffered(tag) )
         => /\ DistinctiveWordsOf(heap'[tables'["A"]], tag)
                 = DistinctiveWordsOf(heap[tables["A"]], tag)
            /\ Close(heap'[tables'["A"]].tagEmbeddings[tag].at,
                     heap[tables["A"]].tagEmbeddings[tag].at)]_vars


(***************************************************************************)
(* C24.  After import(S) of a snapshot that import accepts, the state of   *)
(* the classifier is the one S gives a new classifier of its class: no     *)
(* buffered documents, and for an advanced classifier the hierarchy, the   *)
(* child map and the feedback counters of S, none where S has none.        *)
(***************************************************************************)
\* the hierarchy and the child map a new classifier of class k has after
\* import(data)
HierarchyFrom(k, data) ==
  IF k = Advanced /\ data.tagHierarchy.defined
  THEN ImportedHierarchy(data.tagHierarchy.value)
  ELSE [tagHierarchy |-> <<>>, tagChildren |-> <<>>]

\* the tags a new classifier of class k has feedback for after import(data)
FeedbackFrom(k, data) ==
  IF k = Advanced /\ data.userFeedback.defined
  THEN DOMAIN data.userFeedback.value
  ELSE {}

C24_ImportDeterminesTheState ==
  (call.op = "import" /\ ~call.threw)
    => /\ trainingBuffer[call.inst] = <<>>
       /\ tagHierarchy[call.inst]
            = HierarchyFrom(kind[call.inst], call.args.data).tagHierarchy
       /\ tagChildren[call.inst]
            = HierarchyFrom(kind[call.inst], call.args.data).tagChildren
       /\ DOMAIN userFeedback[call.inst]
            = FeedbackFrom(kind[call.inst], call.args.data)


(***************************************************************************)
(* C25.  With autoTagOnSave, the chain of 'modify' event, autoTagFile,     *)
(* getSuggestions, applyTags and vault.modify that a save starts comes to  *)
(* an end.  What autoTagFile does is a function of the note, the blacklist *)
(* and the classifier, and the chain changes none of them but the note: so *)
(* a chain that ends has no autoTagFile that writes the note, raising      *)
(* 'modify' again, and leaves the note's tags as they were.                *)
(***************************************************************************)
C25_AutoTagOnSaveTerminates ==
  [][( /\ call.op = "modify"
       /\ call'.op = "autoTagFile"
       /\ call'.result # <<>> )
       => notes' # notes]_vars


(***************************************************************************)
(* C26.  Advanced classify honours minSimilarity: no tag that passed its   *)
(* similarity/overlap filter is returned with a cosine similarity below    *)
(* the caller's minSimilarity.  (Without existing tags and feedback every  *)
(* returned tag is one that passed the filter.)                            *)
(***************************************************************************)
C26_AdvancedHonoursMinSimilarity ==
  ( /\ ClassifyReturned(Advanced)
    /\ call.args.existingTags = <<>>
    /\ DOMAIN userFeedback[call.inst] = {} )
    => \A k \in DOMAIN call.result :
         GEq(SimilarityOf(call.result[k].tag), call.args.minSimilarity)


(***************************************************************************)
(* C27.  Training is order-independent: two classifiers trained on the     *)
(* same documents in different orders and then finalized have the same doc *)
(* counts, the same docFrequency, the same distinctive-word list for every *)
(* tag, and return the same set of tags from classify for every input.     *)
(***************************************************************************)
\* i and j were trained on the same documents, each finalized once after
SamePermutation(i, j) ==
  /\ history[i].rounds = 1 /\ history[j].rounds = 1
  /\ trainingBuffer[i] = <<>> /\ trainingBuffer[j] = <<>>
  /\ Len(history[i].trained) > 0
  /\ \A doc \in PermPool : TimesTrained(i, doc) = TimesTrained(j, doc)

C27_TrainingIsOrderIndependent ==
  SamePermutation("A", "B")
    => /\ totalDocs["A"] = totalDocs["B"]
       /\ docFrequency["A"] = docFrequency["B"]
       /\ Instance("A").store.tagDocCounts = Instance("B").store.tagDocCounts
       /\ Instance("A").store.tagDistinctiveWords
            = Instance("B").store.tagDistinctiveWords
       /\ \A request \in PermRequests :
            TagsOf(Classified(Instance("A"), request))
              = TagsOf(Classified(Instance("B"), request))


(***************************************************************************)
(* C28.  The list returned by classify, of either classifier, never holds  *)
(* the same tag twice.                                                     *)
(***************************************************************************)
C28_NoTagIsReturnedTwice ==
  call.op = "classify"
    => \A j, k \in DOMAIN call.result :
         j # k => call.result[j].tag # call.result[k].tag


(***************************************************************************)
(* C29.  After reset() no training-derived state remains: the centroids,   *)
(* doc counts, distinctive words, docFrequency and training buffer are     *)
(* empty and totalDocs is 0; for the advanced classifier the tag hierarchy *)
(* and the child map are empty too, so what export() gives for them and    *)
(* getAdvancedStats().hierarchyRelations are those of a new instance.      *)
(***************************************************************************)
C29_ResetLeavesNothingTrained ==
  call.op = "reset"
    => /\ Instance(call.inst).store = EmptyStore
       /\ totalDocs[call.inst] = 0
       /\ docFrequency[call.inst] = <<>>
       /\ trainingBuffer[call.inst] = <<>>
       /\ kind[call.inst] = Advanced
            => /\ tagHierarchy[call.inst] = <<>>
               /\ tagChildren[call.inst] = <<>>
               /\ Export(call.inst).tagHierarchy.value = <<>>
               /\ getAdvancedStats(Instance(call.inst)).hierarchyRelations = 0


(***************************************************************************)
(* C30.  The tag hierarchy of an advanced classifier is irreflexive and    *)
(* antisymmetric: no tag is its own parent and no two distinct tags are    *)
(* each other's parent; and the parent -> children map is the exact        *)
(* inverse of the child -> parents map.                                    *)
(***************************************************************************)
\* the <<from, to>> pairs of a Map<string, Set<string>>
LinksOf(m) ==
  UNION {{<<m[k].key, v>> : v \in Range(m[k].values)} : k \in DOMAIN m}

=============================================================================
